---------------------------- MODULE Spec2Model ----------------------------
(***************************************************************************)
(* State-machine model of backend/simulation.py (class SimulationEngine)   *)
(* and of the control surface of backend/main.py.                          *)
(*                                                                         *)
(* Units.  Percentages (effectiveness, random rolls) are carried in        *)
(* thousandths of a percent (x 1000), so that base * strength/100 * bonus  *)
(* is an exact integer: base * strength * bonus10 where bonus10 is the     *)
(* defense_bonus times ten.  Attack, defense and outcome ids               *)
(* (uuid4().hex[:8] in the source) are modelled as fresh integers: the     *)
(* position of the record in its append-only log.  Python's None is the    *)
(* string "None" for strings and the number NoStep / NoArg for numbers.    *)
(* Positions are in 1e-5 degree, the progress along an edge in 1e-5 of the *)
(* edge, speeds and the numeric parameters in tenths, and hack_progress in *)
(* seventieths (the 70 and 100 of the source are 4900 and 7000).           *)
(*                                                                         *)
(* World.  Three vehicles (one hacker, two targets on the nearby streets)  *)
(* stand for the ten that _generate_initial_vehicles draws at random.      *)
(* The arguments of the control calls are values of each field's own type: *)
(* strings for ids, types and levels, numbers for coordinates and          *)
(* parameters, booleans for flags.                                         *)
(*                                                                         *)
(* Exceptions.  A handler that raises keeps the writes it made before the  *)
(* raise; last_op.raised records it.  The KeyError of initiate_attack for  *)
(* an unknown sophistication and the ZeroDivisionError of the beacon test  *)
(* for message_frequency 0 are modelled this way.                          *)
(***************************************************************************)
EXTENDS Integers, Sequences, FiniteSets, TLC

VARIABLES
    is_running,            \* SimulationEngine.is_running
    step_count,            \* SimulationEngine.step_count
    active_attack,         \* selected attack type ("None" for None, "" for empty)
    attack_sophistication, \* SimulationEngine.attack_sophistication
    attack_logs,           \* sequence of AttackLog
    defense_logs,          \* sequence of DefenseLog
    outcome_logs,          \* sequence of AttackOutcome
    active_attacks,        \* dict attack_id -> state, as a sequence in insertion order
    defense_config,        \* defense key -> [enabled, strength]
    params,                \* SimulationEngine.params
    vehicles,              \* sequence of vehicle records
    last_op,               \* history: the operation just performed, its arguments, how it ended
    traffic_lights,        \* light node -> [state, timer]
    v2v_messages,          \* the V2V exchanges of the last step
    anomaly_detections,    \* the last ten anomalies of the last step
    calls,                 \* history: number of control calls made so far
    tasks,                 \* the coroutines the event loop of main.py serves
    origin,                \* history: per AttackLog, who initiated it, when, due and ended when
    probe                  \* the last evaluation of the effectiveness formula

vars == <<is_running, step_count, active_attack, attack_sophistication,
          attack_logs, defense_logs, outcome_logs, active_attacks,
          defense_config, params, vehicles, traffic_lights, v2v_messages,
          anomaly_detections, last_op, calls, tasks, origin, probe>>

\* Everything the program itself holds (the history variables left out).
progVars == <<is_running, step_count, active_attack, attack_sophistication,
              attack_logs, defense_logs, outcome_logs, active_attacks,
              defense_config, params, vehicles, traffic_lights, v2v_messages,
              anomaly_detections>>

-----------------------------------------------------------------------------
(* Bounds of the model *)

\* step() is not taken once step_count has reached MaxStep.
MaxStep == 72

\* At most MaxCalls control calls (set_attack, configure_defense, ...) per run.
MaxCalls == 2

-----------------------------------------------------------------------------
(* Sentinels *)

None == "None"

NoStep == -1

NoArg == -1000

-----------------------------------------------------------------------------
(* Catalogs *)

Levels == {"low", "medium", "high"}

ATTACK_TYPES ==
    {"position_falsification", "gps_spoofing", "sybil", "message_replay",
     "dos_flooding", "velocity_spoofing", "certificate_replay",
     "false_emergency", "message_suppression", "illusion"}

\* Keys of DEFENSE_TYPES in dict (iteration) order.
DefenseOrder ==
    <<"cryptographic_verification", "plausibility_check", "trust_management",
      "misbehavior_detection", "collaborative_verification", "rate_limiting",
      "timestamp_validation">>

DefenseKeys == {DefenseOrder[i] : i \in 1..Len(DefenseOrder)}

DEFENSE_TYPES ==
    [k \in DefenseKeys |->
       CASE k = "cryptographic_verification" ->
              [effectiveness |-> [low |-> 90, medium |-> 70, high |-> 40],
               applicable_to |-> {"certificate_replay", "message_replay", "sybil"}]
         [] k = "plausibility_check" ->
              [effectiveness |-> [low |-> 95, medium |-> 75, high |-> 50],
               applicable_to |-> {"position_falsification", "velocity_spoofing",
                                  "gps_spoofing", "false_emergency"}]
         [] k = "trust_management" ->
              [effectiveness |-> [low |-> 60, medium |-> 80, high |-> 85],
               applicable_to |-> {"position_falsification", "velocity_spoofing",
                                  "gps_spoofing", "illusion"}]
         [] k = "misbehavior_detection" ->
              [effectiveness |-> [low |-> 85, medium |-> 70, high |-> 55],
               applicable_to |-> {"dos_flooding", "illusion", "message_suppression",
                                  "sybil"}]
         [] k = "collaborative_verification" ->
              [effectiveness |-> [low |-> 70, medium |-> 85, high |-> 75],
               applicable_to |-> {"position_falsification", "gps_spoofing", "sybil",
                                  "illusion"}]
         [] k = "rate_limiting" ->
              [effectiveness |-> [low |-> 90, medium |-> 70, high |-> 45],
               applicable_to |-> {"dos_flooding", "sybil"}]
         [] OTHER -> \* timestamp_validation
              [effectiveness |-> [low |-> 95, medium |-> 65, high |-> 40],
               applicable_to |-> {"message_replay"}]]

\* DEFENSE_LEVELS[level]["defense_bonus"] times ten, with the source's
\* DEFENSE_LEVELS.get(level, DEFENSE_LEVELS["medium"]) default.
DefenseBonus10(level) ==
    CASE level = "low"  -> 7
      [] level = "high" -> 15
      [] OTHER          -> 10


-----------------------------------------------------------------------------
(* Helpers *)

Min(a, b) == IF a < b THEN a ELSE b

Max(a, b) == IF a > b THEN a ELSE b

Range(s) == {s[i] : i \in 1..Len(s)}

\* s[:n] of a Python list.
Take(s, n) == SubSeq(s, 1, Min(n, Len(s)))

-----------------------------------------------------------------------------
(* Geometry: positions are in units of 1e-5 degree *)

\* _distance(v1, v2) squared.
DistSq(v1, v2) ==
    (v1.lat - v2.lat) * (v1.lat - v2.lat) + (v1.lon - v2.lon) * (v1.lon - v2.lon)

\* The comparison with <= in place of <.
DistLessOrEqual(v1, v2, range, num, den) ==
    /\ range >= 0
    /\ den * den * DistSq(v1, v2) <= num * num * range * range

\* _distance(v1, v2) < range * num / den, for a distance >= 0.
DistLess(v1, v2, range, num, den) ==
    /\ range > 0
    /\ den * den * DistSq(v1, v2) < num * num * range * range

-----------------------------------------------------------------------------
(* process_defenses *)

\* The uniform draw random.random() * 100 in [0, 100), in thousandths.
RollDraws == {0, 50000, 99999}

\* adjusted_effectiveness without the cap: a defense at strength 100 on
\* high-defense targets exceeds 100%.
AdjustedEffectivenessNoCap(base, strength, level) ==
    base * strength * DefenseBonus10(level)

\* base_effectiveness * (defense_strength / 100.0) * defense_level_bonus,
\* capped at 99; result in thousandths of a percent.
AdjustedEffectiveness(base, strength, level) ==
    Min(base * strength * DefenseBonus10(level), 99000)

\* defense_info["effectiveness"].get(sophistication, 50)
BaseEffectiveness(defense_key, sophistication) ==
    IF sophistication \in Levels
    THEN DEFENSE_TYPES[defense_key].effectiveness[sophistication]
    ELSE 50

\* Keys of defense_counts in dict order: low, medium, high, then every other
\* level in order of first occurrence among the targets.
RECURSIVE CountKeys(_, _)
CountKeys(keys, lvls) ==
    IF lvls = <<>> THEN keys
    ELSE CountKeys(IF Head(lvls) \in Range(keys) THEN keys
                   ELSE Append(keys, Head(lvls)), Tail(lvls))

\* avg_defense: max(defense_counts, key=defense_counts.get), "medium" when
\* there is no target vehicle.  max() returns the first maximal key.
ModalDefense(lvls) ==
    IF lvls = <<>> THEN "medium"
    ELSE LET keys == CountKeys(<<"low", "medium", "high">>, lvls)
             Cnt(k) == Cardinality({i \in 1..Len(lvls) : lvls[i] = k})
             best == CHOOSE i \in 1..Len(keys) :
                        /\ \A j \in 1..Len(keys) : Cnt(keys[j]) <= Cnt(keys[i])
                        /\ \A j \in 1..(i - 1) : Cnt(keys[j]) < Cnt(keys[i])
         IN keys[best]

\* defense_level of every live vehicle whose id is in target_ids.
TargetLevels(vehs, target_ids) ==
    LET IsTarget(v) == v.id \in Range(target_ids)
        tv == SelectSeq(vehs, IsTarget)
    IN [i \in 1..Len(tv) |-> tv[i].defense_level]

\* The applicable defenses with the enabled flag of defense_config ignored.
ApplicableIgnoringEnabled(attack_type, cfg) ==
    LET Use(k) == attack_type \in DEFENSE_TYPES[k].applicable_to
    IN SelectSeq(DefenseOrder, Use)

\* The defenses a resolution of this attack type evaluates, in catalog order:
\* applicable to the type and enabled in defense_config.
ApplicableEnabled(attack_type, cfg) ==
    LET Use(k) == /\ attack_type \in DEFENSE_TYPES[k].applicable_to
                  /\ cfg[k].enabled
    IN SelectSeq(DefenseOrder, Use)

\* len(defenses_succeeded) > 0 replaced by "every defense succeeded".
AttackBlockedAll(dlogs) ==
    \A i \in 1..Len(dlogs) : dlogs[i].success

\* attack_blocked = len(defenses_succeeded) > 0
AttackBlocked(dlogs) ==
    \E i \in 1..Len(dlogs) : dlogs[i].success

\* All sequences of DefenseLog records one call of process_defenses can
\* create for attack_log, one per random outcome; first_id is the id of the
\* first record created.
RECURSIVE DefenseRolls(_, _, _, _, _)
DefenseRolls(keys, attack_log, cfg, level, first_id) ==
    IF keys = <<>> THEN {<<>>}
    ELSE LET k   == Head(keys)
             adj == AdjustedEffectiveness(
                        BaseEffectiveness(k, attack_log.sophistication),
                        cfg[k].strength, level)
             rest == DefenseRolls(Tail(keys), attack_log, cfg, level, first_id + 1)
         IN {<<[id           |-> first_id,
                defense_type |-> k,
                attack_id    |-> attack_log.id,
                attacker_id  |-> attack_log.attacker_id,
                success      |-> (draw < adj),
                confidence   |-> adj]>> \o r : draw \in RollDraws, r \in rest}

ProcessDefenses(attack_log, cfg, vehs, first_id) ==
    DefenseRolls(ApplicableEnabled(attack_log.attack_type, cfg), attack_log, cfg,
                 ModalDefense(TargetLevels(vehs, attack_log.target_ids)), first_id)

-----------------------------------------------------------------------------
(* Attack lifecycle.  The functions below work on a record                 *)
(*   st = [al |-> attack_logs, dl |-> defense_logs, ol |-> outcome_logs,   *)
(*         aa |-> active_attacks]                                          *)
(* so that a handler calling several of them in sequence can thread the    *)
(* state through.                                                          *)

\* Python truthiness of active_attack / attack_type: None and "" are falsy.
Truthy(x) == x /= None /\ x /= ""

ActiveIds(aa) == {aa[i].id : i \in 1..Len(aa)}

\* del self.active_attacks[attack_id]
RemoveActive(aa, id) ==
    LET Keep(a) == a.id /= id IN SelectSeq(aa, Keep)

\* The status assigned to every log of the stream.
SetStatusAll(al, id, status) ==
    [i \in 1..Len(al) |-> [al[i] EXCEPT !.status = status]]

\* attack_log.status = status, through the reference both attack_logs and
\* the active attack state hold.
SetStatus(al, id, status) ==
    [i \in 1..Len(al) |-> IF al[i].id = id THEN [al[i] EXCEPT !.status = status]
                          ELSE al[i]]

LogOf(al, id) == al[CHOOSE i \in 1..Len(al) : al[i].id = id]

\* The targets without the test of is_attacker.
TargetsWithAttackers(vehs, attacker_id, range) ==
    LET a == CHOOSE i \in 1..Len(vehs) :
                 /\ vehs[i].id = attacker_id
                 /\ \A j \in 1..(i - 1) : vehs[j].id /= attacker_id
        Near(v) == /\ v.id /= attacker_id
                   /\ DistLess(vehs[a], v, range, 2, 1)
        near == SelectSeq(vehs, Near)
    IN [i \in 1..Len(near) |-> near[i].id]

\* targets of initiate_attack: ids of the vehicles other than attacker_id,
\* not flagged is_attacker, at distance < 2 * communication_range of the
\* first vehicle whose id is attacker_id; in vehicle-list order.
Targets(vehs, attacker_id, range) ==
    LET a == CHOOSE i \in 1..Len(vehs) :
                 /\ vehs[i].id = attacker_id
                 /\ \A j \in 1..(i - 1) : vehs[j].id /= attacker_id
        Near(v) == /\ v.id /= attacker_id
                   /\ ~v.is_attacker
                   /\ DistLess(vehs[a], v, range, 2, 1)
        near == SelectSeq(vehs, Near)
    IN [i \in 1..Len(near) |-> near[i].id]

\* initiate_attack(attack_type, attacker_id, sophistication).  Result:
\*   st     the state afterwards,
\*   id     the attack id returned, 0 for None,
\*   raised TRUE when the call ends in KeyError (the sophistication is no key
\*          of attack_info["sophistication_levels"]); nothing is appended then.
InitiateAttack(st, vehs, range, attack_type, attacker_id, sophistication) ==
    IF attack_type \notin ATTACK_TYPES
    THEN [st |-> st, id |-> 0, raised |-> FALSE]
    ELSE IF \A i \in 1..Len(vehs) : vehs[i].id /= attacker_id
    THEN [st |-> st, id |-> 0, raised |-> FALSE]
    ELSE IF sophistication \notin Levels
    THEN [st |-> st, id |-> 0, raised |-> TRUE]
    ELSE LET new_id == Len(st.al) + 1
             log == [id             |-> new_id,
                     attack_type    |-> attack_type,
                     attacker_id    |-> attacker_id,
                     target_ids     |-> Take(Targets(vehs, attacker_id, range), 3),
                     sophistication |-> sophistication,
                     status         |-> "initiated"]
         IN [st |-> [st EXCEPT !.al = Append(st.al, log),
                               !.aa = Append(st.aa, [id |-> new_id,
                                                     resolution_step |-> NoStep])],
             id |-> new_id,
             raised |-> FALSE]

\* attack_state["resolution_step"] = step
SetResolution(st, id, step) ==
    [st EXCEPT !.aa = [i \in 1..Len(st.aa) |->
                          IF st.aa[i].id = id
                          THEN [st.aa[i] EXCEPT !.resolution_step = step]
                          ELSE st.aa[i]]]

\* defense_ids of an outcome taken from the whole defense log instead of the
\* logs this resolution created.
OutcomeDefenseIdsAll(dl, created) ==
    [i \in 1..Len(dl \o created) |-> (dl \o created)[i].id]

\* defense_ids=[d.id for d in defense_logs]; dl is self.defense_logs before
\* the resolution, created the logs process_defenses returned.
OutcomeDefenseIds(dl, created) ==
    [i \in 1..Len(created) |-> created[i].id]

\* del self.active_attacks[attack_id] left out.
RemoveResolvedKeep(aa, id) == aa

\* del self.active_attacks[attack_id] at the end of resolve_attack
RemoveResolved(aa, id) == RemoveActive(aa, id)

\* The body of resolve_attack past its guard: process_defenses, the terminal
\* status, the AttackOutcome, the removal from active_attacks.  One state per
\* outcome of the defense rolls.
ResolveBody(st, vehs, cfg, attack_id) ==
    LET log == LogOf(st.al, attack_id)
    IN {[al |-> SetStatus(st.al, attack_id,
                          IF AttackBlocked(d) THEN "blocked" ELSE "succeeded"),
         dl |-> st.dl \o d,
         ol |-> Append(st.ol,
                   [id                 |-> Len(st.ol) + 1,
                    attack_id          |-> attack_id,
                    defense_ids        |-> OutcomeDefenseIds(st.dl, d),
                    result             |-> IF AttackBlocked(d) THEN "blocked"
                                           ELSE "full_success",
                    attack_succeeded   |-> ~AttackBlocked(d),
                    defenses_triggered |-> Len(d)]),
         aa |-> RemoveResolved(st.aa, attack_id)]
        : d \in ProcessDefenses(log, cfg, vehs, Len(st.dl) + 1)}

\* resolve_attack guarded by "the id names a logged attack" instead of "the id
\* is a key of active_attacks": a resolved attack is resolved again.
ResolveAttackAnyLogged(st, vehs, cfg, attack_id) ==
    IF \A i \in 1..Len(st.al) : st.al[i].id /= attack_id THEN {st}
    ELSE ResolveBody(st, vehs, cfg, attack_id)

\* resolve_attack(attack_id): the set of states it can end in.  No state
\* change when attack_id is not a key of active_attacks.
ResolveAttack(st, vehs, cfg, attack_id) ==
    IF attack_id \notin ActiveIds(st.aa) THEN {st}
    ELSE ResolveBody(st, vehs, cfg, attack_id)

\* The cancellation of set_attack applied to every logged attack.
CancelAll(al, aa) ==
    [i \in 1..Len(al) |-> [al[i] EXCEPT !.status = "cancelled"]]

\* The cancellation of set_attack removing the cancelled logs from the stream.
CancelDrop(al, aa) ==
    LET Keep(l) == l.id \notin ActiveIds(aa) IN SelectSeq(al, Keep)

\* set_attack with no type: attack_log.status = "cancelled" for every key of
\* active_attacks.
CancelActive(al, aa) ==
    [i \in 1..Len(al) |-> IF al[i].id \in ActiveIds(aa)
                          THEN [al[i] EXCEPT !.status = "cancelled"]
                          ELSE al[i]]

\* The last vehicle flagged is_attacker in place of the first.
LastAttacker(vehs) ==
    LET IsAtt(v) == v.is_attacker
        att == SelectSeq(vehs, IsAtt)
    IN IF att = <<>> THEN <<>> ELSE <<att[Len(att)].id>>

\* attackers[:1]: the id of the first vehicle flagged is_attacker, as a
\* sequence of length 0 or 1.
FirstAttacker(vehs) ==
    LET IsAtt(v) == v.is_attacker
        att == SelectSeq(vehs, IsAtt)
    IN IF att = <<>> THEN <<>> ELSE <<att[1].id>>

-----------------------------------------------------------------------------
(* Random draws and inputs of the control surface *)

\* random.randint(30, 60) in set_attack
ResolveDelayMin == 30

ResolveDelayMax == 60

\* random.randint(40, 80) in step
RetriggerDelayMin == 40

RetriggerDelayMax == 80

\* The draws of random.randint(lo, hi) the model follows: both ends.
RandInt(lo, hi) == {lo, hi}

\* The ticks (values of step_count) at which the model makes control calls:
\* at the start, and around the ticks at which attacks made at the start are
\* due.
CallTicks == {0, 30, 60}

\* Arguments of set_attack (AttackRequest: attack_type, sophistication: str):
\* no type, the empty string, a catalog key two defenses apply to, the same with a
\* sophistication the catalog does not know, a catalog key one defense applies
\* to, an unknown key.
SetAttackInputs ==
    {[attack_type |-> None,                  sophistication |-> "medium"],
     [attack_type |-> "",                    sophistication |-> "low"],
     [attack_type |-> "message_replay",      sophistication |-> "medium"],
     [attack_type |-> "message_replay",      sophistication |-> "extreme"],
     [attack_type |-> "message_suppression", sophistication |-> "high"],
     [attack_type |-> "no_such_attack",      sophistication |-> "medium"]}

\* Arguments of configure_defense; "None" / NoArg: argument omitted.
ConfigureDefenseInputs ==
    {[defense_type |-> "misbehavior_detection", enabled |-> "false", strength |-> NoArg],
     [defense_type |-> "timestamp_validation",  enabled |-> "true",  strength |-> 130],
     [defense_type |-> "timestamp_validation",  enabled |-> None,    strength |-> 0 - 20],
     [defense_type |-> "no_such_defense",       enabled |-> "false", strength |-> 50]}

\* Arguments of update_params: radio off, a wider radio range.
ParamsInputs ==
    {[communication_range |-> 0],
     [communication_range |-> 800]}

\* Arguments of update_vehicle: the hacker loses its flag, a second vehicle
\* gets it, the far vehicle is put next to the hacker, a vehicle changes its
\* defense level, an unknown id.
UpdateVehicleInputs ==
    {[vehicle_id |-> "v_0", updates |-> [is_attacker |-> FALSE]],
     [vehicle_id |-> "v_1", updates |-> [is_attacker |-> TRUE]],
     [vehicle_id |-> "v_2", updates |-> [lat |-> 4070350, lon |-> 0 - 7401300]],
     [vehicle_id |-> "v_1", updates |-> [defense_level |-> "high"]],
     [vehicle_id |-> "v_9", updates |-> [is_attacker |-> TRUE]]}

\* dict.update
Merge(d, u) ==
    [f \in DOMAIN d \cup DOMAIN u |-> IF f \in DOMAIN u THEN u[f] ELSE d[f]]

-----------------------------------------------------------------------------
(* step(): the attack loop *)

EntryOf(aa, id) == aa[CHOOSE i \in 1..Len(aa) : aa[i].id = id]

\* The loop "for attack_id in list(self.active_attacks.keys())" of step() over
\* the ids still to visit.  Result: the set of [st, raised] it can end in;
\* raised is TRUE when initiate_attack raised, which ends step() there.
RECURSIVE ProcessDue(_, _, _, _, _, _, _, _)
ProcessDue(ids, st, tick, vehs, cfg, range, aatk, soph) ==
    IF ids = <<>> THEN {[st |-> st, raised |-> FALSE]}
    ELSE
      LET id    == Head(ids)
          entry == EntryOf(st.aa, id)
          Rest(s) == ProcessDue(Tail(ids), s, tick, vehs, cfg, range, aatk, soph)
          Retrigger(s) ==
              IF ~Truthy(aatk) \/ FirstAttacker(vehs) = <<>> THEN Rest(s)
              ELSE LET r == InitiateAttack(s, vehs, range, aatk,
                                           FirstAttacker(vehs)[1], soph)
                   IN IF r.raised THEN {[st |-> s, raised |-> TRUE]}
                      ELSE IF r.id = 0 THEN Rest(s)
                      ELSE UNION {Rest(SetResolution(r.st, r.id, tick + d)) :
                                    d \in RandInt(RetriggerDelayMin, RetriggerDelayMax)}
      IN IF entry.resolution_step /= NoStep /\ tick >= entry.resolution_step
         THEN UNION {Retrigger(s) : s \in ResolveAttack(st, vehs, cfg, id)}
         ELSE Rest(st)

-----------------------------------------------------------------------------
(* Road network: _create_advanced_road_network, _init_traffic_lights *)

\* intersections: node -> (lat, lon), in 1e-5 degree
NodePos ==
    [greenwich_battery   |-> <<4070280, -7401350>>,
     greenwich_rector    |-> <<4070650, -7401330>>,
     greenwich_cortlandt |-> <<4070900, -7401300>>,
     greenwich_fulton    |-> <<4071070, -7401200>>,
     greenwich_vesey     |-> <<4071200, -7401150>>,
     greenwich_barclay   |-> <<4071350, -7401080>>,
     greenwich_murray    |-> <<4071520, -7401000>>,
     wbway_rector        |-> <<4070700, -7401050>>,
     wbway_cortlandt     |-> <<4070920, -7400980>>,
     wbway_fulton        |-> <<4071100, -7400900>>,
     wbway_vesey         |-> <<4071250, -7400850>>,
     wbway_barclay       |-> <<4071400, -7400780>>,
     wbway_murray        |-> <<4071550, -7400700>>,
     church_rector       |-> <<4070750, -7400750>>,
     church_cortlandt    |-> <<4070950, -7400680>>,
     church_fulton       |-> <<4071120, -7400580>>,
     church_vesey        |-> <<4071280, -7400550>>,
     church_barclay      |-> <<4071430, -7400480>>,
     church_murray       |-> <<4071580, -7400420>>,
     bway_battery        |-> <<4070350, -7401300>>,
     bway_rector         |-> <<4070800, -7400600>>,
     bway_cortlandt      |-> <<4070980, -7400480>>,
     bway_fulton         |-> <<4071150, -7400400>>,
     bway_vesey          |-> <<4071300, -7400320>>,
     bway_barclay        |-> <<4071450, -7400280>>,
     bway_murray         |-> <<4071600, -7400200>>]

Nodes == DOMAIN NodePos

\* ns_streets and ew_streets: every consecutive pair is joined both ways
Streets ==
    {<<"greenwich_battery", "greenwich_rector", "greenwich_cortlandt",
       "greenwich_fulton", "greenwich_vesey", "greenwich_barclay",
       "greenwich_murray">>,
     <<"wbway_rector", "wbway_cortlandt", "wbway_fulton", "wbway_vesey",
       "wbway_barclay", "wbway_murray">>,
     <<"church_rector", "church_cortlandt", "church_fulton", "church_vesey",
       "church_barclay", "church_murray">>,
     <<"bway_battery", "bway_rector", "bway_cortlandt", "bway_fulton",
       "bway_vesey", "bway_barclay", "bway_murray">>,
     <<"greenwich_rector", "wbway_rector", "church_rector", "bway_rector">>,
     <<"greenwich_cortlandt", "wbway_cortlandt", "church_cortlandt",
       "bway_cortlandt">>,
     <<"greenwich_fulton", "wbway_fulton", "church_fulton", "bway_fulton">>,
     <<"greenwich_vesey", "wbway_vesey", "church_vesey", "bway_vesey">>,
     <<"greenwich_barclay", "wbway_barclay", "church_barclay", "bway_barclay">>,
     <<"greenwich_murray", "wbway_murray", "church_murray", "bway_murray">>}

Edges ==
    [n \in Nodes |->
       {m \in Nodes : \E s \in Streets : \E i \in 1..(Len(s) - 1) :
           \/ s[i] = n /\ s[i + 1] = m
           \/ s[i] = m /\ s[i + 1] = n}]

Neighbors(n) == Edges[n]

\* Traffic lights stand at the nodes with three or more neighbours.
LightNodes == {n \in Nodes : Cardinality(Neighbors(n)) >= 3}

\* Number of edges on a shortest route from the frontier to b, -1 if none.
RECURSIVE Hops(_, _, _, _)
Hops(frontier, seen, b, k) ==
    IF b \in frontier THEN k
    ELSE IF frontier = {} THEN 0 - 1
    ELSE LET nxt == (UNION {Neighbors(n) : n \in frontier}) \ seen
         IN Hops(nxt, seen \cup nxt, b, k + 1)

\* _get_path answering with the two end points alone.
StraightPaths(a, b) == {<<a, b>>}

\* _get_path(start, end): nx.shortest_path returns one shortest route; which
\* one among several of equal length is left open here.  [] (the empty
\* sequence) when a node is not in the graph.
RECURSIVE ShortestPaths(_, _)
ShortestPaths(a, b) ==
    IF a \notin Nodes \/ b \notin Nodes THEN {<<>>}
    ELSE IF a = b THEN {<<a>>}
    ELSE LET d == Hops({a}, {a}, b, 0)
         IN UNION {{<<a>> \o p : p \in ShortestPaths(n, b)} :
                     n \in {m \in Neighbors(a) : Hops({m}, {m}, b, 0) = d - 1}}

\* floor of the square root, by bisection on lo..hi
RECURSIVE IsqrtIn(_, _, _)
IsqrtIn(n, lo, hi) ==
    IF lo >= hi THEN lo
    ELSE LET mid == (lo + hi + 1) \div 2
         IN IF mid * mid <= n THEN IsqrtIn(n, mid, hi) ELSE IsqrtIn(n, lo, mid - 1)

Isqrt(n) == IsqrtIn(n, 0, 8192)

-----------------------------------------------------------------------------
(* step(): the vehicle loop.  hack_progress is carried in seventieths      *)
(* (x 70, which makes every hack speed 1.5 * attack / defense an integer), *)
(* progress along an edge in units of 1e-5, speeds in tenths of a km/h.    *)

\* ATTACK_SPEED_MULTIPLIERS.get(sophistication, 1.0), times ten
AttackSpeed10(sophistication) ==
    CASE sophistication = "low"  -> 6
      [] sophistication = "high" -> 18
      [] OTHER                   -> 10

\* DEFENSE_LEVELS.get(level, DEFENSE_LEVELS["medium"])["hack_multiplier"], x 100
HackMultiplier100(level) ==
    CASE level = "low"  -> 150
      [] level = "high" -> 35
      [] OTHER          -> 100

\* DEFENSE_LEVELS.get(level, DEFENSE_LEVELS["medium"])["resist_chance"], x 100
ResistChance100(level) ==
    CASE level = "low"  -> 0
      [] level = "high" -> 40
      [] OTHER          -> 15

\* hack_speed = 1.5 * attack_mult / max(defense_mult, 0.1), in seventieths
HackSpeed70(sophistication, level) ==
    (1050 * AttackSpeed10(sophistication)) \div Max(HackMultiplier100(level), 10)

\* The clearing of the targeting state left out.
KeepHack(v) == v

\* v["target_vehicle"] = None; v["hack_progress"] = 0
ClearHack(v) == [v EXCEPT !.target_vehicle = None, !.hack_progress = 0]

\* next((t for t in self.vehicles if t["id"] == id), None): its index, 0 for None
FirstWithId(vehs, id) ==
    IF \E j \in 1..Len(vehs) : vehs[j].id = id
    THEN CHOOSE j \in 1..Len(vehs) :
           vehs[j].id = id /\ \A k \in 1..(j - 1) : vehs[k].id /= id
    ELSE 0

\* The vehicles the hacker may pick as its target
Nearby(vehs, i, range) ==
    {j \in 1..Len(vehs) :
       /\ ~vehs[j].is_attacker
       /\ vehs[j].status = "moving"
       /\ DistLess(vehs[i], vehs[j], range, 1, 1)}

Anomaly(tick, vehicle_id, sender, type, severity) ==
    [tick |-> tick, vehicle |-> vehicle_id, sender |-> sender, type |-> type,
     severity |-> severity]

\* The draws of random.random() < resist_chance * 0.05 the model follows: the
\* roll can succeed in the first step in which hack_progress has passed 70
\* and in the step in which it reaches 100, and fails in the steps between.
ResistDraw(progress_before, progress) ==
    progress_before <= 4900 \/ progress >= 7000

\* "Hack target" leaving the speed of the hacked vehicle as it was.
HackTargetKeepSpeed(vehs, anoms, i, ctx) ==
    LET v == vehs[i]
        t == FirstWithId(vehs, v.target_vehicle)
        cleared == [vehs |-> [vehs EXCEPT ![i] = ClearHack(@)], anoms |-> anoms]
    IN IF t = 0 THEN {cleared}
       ELSE IF vehs[t].status /= "moving" THEN {cleared}
       ELSE IF ~DistLess(v, vehs[t], ctx.params.communication_range, 12, 10)
       THEN {cleared}
       ELSE
         LET level == vehs[t].defense_level
             hp == v.hack_progress + HackSpeed70(ctx.soph, level)
             resisted ==
               [vehs  |-> [vehs EXCEPT ![i] = ClearHack(@),
                                       ![t].anomalies_detected = @ + 1],
                anoms |-> Append(anoms, Anomaly(ctx.tick, vehs[t].id, v.id,
                                                ctx.aatk, "medium"))]
             hacked ==
               [vehs  |-> [vehs EXCEPT ![i].hack_progress = hp,
                                       ![t].status = "stopped",
                                       ![t].hack_recovery_timer = 50,
                                       ![t].anomalies_detected = @ + 1,
                                       ![i] = ClearHack(@)],
                anoms |-> Append(anoms, Anomaly(ctx.tick, vehs[t].id, v.id,
                                                ctx.aatk, "high"))]
             going == [vehs |-> [vehs EXCEPT ![i].hack_progress = hp],
                       anoms |-> anoms]
         IN (IF hp > 4900 /\ ResistChance100(level) > 0 /\ ResistDraw(v.hack_progress, hp)
             THEN {resisted} ELSE {})
            \cup {IF hp >= 7000 THEN hacked ELSE going}

\* "Hack target": vehs[i] has a target_vehicle.  One result per outcome of
\* the resist roll.
HackTarget(vehs, anoms, i, ctx) ==
    LET v == vehs[i]
        t == FirstWithId(vehs, v.target_vehicle)
        cleared == [vehs |-> [vehs EXCEPT ![i] = ClearHack(@)], anoms |-> anoms]
    IN IF t = 0 THEN {cleared}
       ELSE IF vehs[t].status /= "moving" THEN {cleared}
       ELSE IF ~DistLess(v, vehs[t], ctx.params.communication_range, 12, 10)
       THEN {cleared}
       ELSE
         LET level == vehs[t].defense_level
             hp == v.hack_progress + HackSpeed70(ctx.soph, level)
             resisted ==
               [vehs  |-> [vehs EXCEPT ![i] = ClearHack(@),
                                       ![t].anomalies_detected = @ + 1],
                anoms |-> Append(anoms, Anomaly(ctx.tick, vehs[t].id, v.id,
                                                ctx.aatk, "medium"))]
             hacked ==
               [vehs  |-> [vehs EXCEPT ![i].hack_progress = hp,
                                       ![t].status = "stopped",
                                       ![t].speed = 0,
                                       ![t].hack_recovery_timer = 50,
                                       ![t].anomalies_detected = @ + 1,
                                       ![i] = ClearHack(@)],
                anoms |-> Append(anoms, Anomaly(ctx.tick, vehs[t].id, v.id,
                                                ctx.aatk, "high"))]
             going == [vehs |-> [vehs EXCEPT ![i].hack_progress = hp],
                       anoms |-> anoms]
         IN (IF hp > 4900 /\ ResistChance100(level) > 0 /\ ResistDraw(v.hack_progress, hp)
             THEN {resisted} ELSE {})
            \cup {IF hp >= 7000 THEN hacked ELSE going}

\* "Hacker Logic" for vehs[i]
HackerLogic(vehs, anoms, i, ctx) ==
    LET v == vehs[i]
    IN IF v.is_attacker /\ Truthy(ctx.aatk)
       THEN LET picked ==
                  IF ~Truthy(v.target_vehicle)
                     /\ Nearby(vehs, i, ctx.params.communication_range) /= {}
                  THEN {[vehs EXCEPT ![i].target_vehicle = vehs[j].id,
                                     ![i].hack_progress = 0] :
                          j \in Nearby(vehs, i, ctx.params.communication_range)}
                  ELSE {vehs}
            IN UNION {IF Truthy(w[i].target_vehicle)
                      THEN HackTarget(w, anoms, i, ctx)
                      ELSE {[vehs |-> w, anoms |-> anoms]} : w \in picked}
       ELSE {[vehs |-> [vehs EXCEPT ![i] = ClearHack(@)], anoms |-> anoms]}

\* "Vehicle recovery"
Recover(v) ==
    IF v.status = "stopped" /\ ~v.is_attacker /\ v.hack_recovery_timer > 0
    THEN IF v.hack_recovery_timer - 1 <= 0
         THEN [v EXCEPT !.status = "moving", !.hack_recovery_timer = 0]
         ELSE [v EXCEPT !.hack_recovery_timer = @ - 1]
    ELSE v

\* _move_vehicle, the branch "Reached target node"
Arrive(w) ==
    LET a == [w EXCEPT !.current_node = w.target_node,
                       !.lat = NodePos[w.target_node][1],
                       !.lon = NodePos[w.target_node][2],
                       !.progress = 0]
        at == {k \in 1..Len(a.path) : a.path[k] = a.current_node}
    IN IF a.current_node = a.destination
       THEN UNION {{IF Len(p) > 1
                    THEN [a EXCEPT !.destination = d, !.path = p,
                                   !.target_node = p[2], !.status = "moving"]
                    ELSE [a EXCEPT !.destination = d, !.path = p,
                                   !.status = "arrived"] :
                      p \in ShortestPaths(a.current_node, d)} : d \in Nodes}
       ELSE IF at /= {} /\ (CHOOSE k \in at : \A m \in at : k <= m) < Len(a.path)
       THEN {[a EXCEPT !.target_node =
                         a.path[(CHOOSE k \in at : \A m \in at : k <= m) + 1]]}
       ELSE {[a EXCEPT !.path = p,
                       !.target_node = IF Len(p) > 1 THEN p[2] ELSE a.current_node] :
               p \in ShortestPaths(a.current_node, a.destination)}

\* _move_vehicle without the test of the light ahead.
MoveVehicleThroughRed(v, lights, speed_multiplier10) ==
    LET start_pos == NodePos[v.current_node]
        end_pos == NodePos[v.target_node]
        edge_dist == Isqrt((end_pos[1] - start_pos[1]) * (end_pos[1] - start_pos[1])
                         + (end_pos[2] - start_pos[2]) * (end_pos[2] - start_pos[2]))
        \* move_dist = max_speed * 0.6 / 111 / 3600 * 0.1 * multiplier degree
        progress == IF edge_dist > 0
                    THEN v.progress
                         + (v.max_speed * speed_multiplier10 * 15015)
                             \div (100 * edge_dist)
                    ELSE 100000
        w == [v EXCEPT !.waiting_at_light = FALSE, !.speed = v.max_speed * 6,
                       !.progress = progress]
    IN IF progress >= 100000 THEN Arrive(w)
       ELSE {[w EXCEPT
                !.lat = start_pos[1]
                        + ((end_pos[1] - start_pos[1]) * progress) \div 100000,
                !.lon = start_pos[2]
                        + ((end_pos[2] - start_pos[2]) * progress) \div 100000]}

\* _move_vehicle(v)
MoveVehicle(v, lights, speed_multiplier10) ==
    IF /\ v.progress > 80000
       /\ v.target_node \in DOMAIN lights
       /\ lights[v.target_node].state = "red"
    THEN {[v EXCEPT !.waiting_at_light = TRUE]}
    ELSE LET start_pos == NodePos[v.current_node]
             end_pos == NodePos[v.target_node]
             edge_dist == Isqrt((end_pos[1] - start_pos[1]) * (end_pos[1] - start_pos[1])
                              + (end_pos[2] - start_pos[2]) * (end_pos[2] - start_pos[2]))
             \* move_dist = max_speed * 0.6 / 111 / 3600 * 0.1 * multiplier degree
             progress == IF edge_dist > 0
                         THEN v.progress
                              + (v.max_speed * speed_multiplier10 * 15015)
                                  \div (100 * edge_dist)
                         ELSE 100000
             w == [v EXCEPT !.waiting_at_light = FALSE, !.speed = v.max_speed * 6,
                            !.progress = progress]
         IN IF progress >= 100000 THEN Arrive(w)
            ELSE {[w EXCEPT
                     !.lat = start_pos[1]
                             + ((end_pos[1] - start_pos[1]) * progress) \div 100000,
                     !.lon = start_pos[2]
                             + ((end_pos[2] - start_pos[2]) * progress) \div 100000]}

\* _detect_anomaly(msg) for a beacon just built: the set of verdicts.  The
\* freshness test compares two readings of the clock taken microseconds
\* apart: it fires when the threshold 10 - sensitivity * 6 is negative and is
\* open when it is zero.
DetectAnomaly(speed10, sensitivity10) ==
    LET fast == speed10 > 2000 - sensitivity10 * 80
        threshold10 == 100 - sensitivity10 * 6
    IN IF fast \/ threshold10 < 0 THEN {TRUE}
       ELSE IF threshold10 = 0 THEN {TRUE, FALSE}
       ELSE {FALSE}

\* int(10 / message_frequency): truncation toward zero; 0 stands for the
\* ZeroDivisionError of a zero frequency as well, since a zero divisor
\* raises in the modulo that follows.
BeaconEvery(message_frequency10) ==
    IF message_frequency10 = 0 THEN 0
    ELSE IF message_frequency10 > 0 THEN 100 \div message_frequency10
    ELSE 0 - (100 \div (0 - message_frequency10))

\* "Generate V2X Message" for vehs[i]; the caller has excluded a zero divisor
Beacon(vehs, anoms, i, ctx) ==
    LET every == BeaconEvery(ctx.params.message_frequency)
        v == vehs[i]
    IN IF ctx.tick % (IF every < 0 THEN 0 - every ELSE every) /= 0
       THEN {[vehs |-> vehs, anoms |-> anoms]}
       ELSE {IF anomalous
             THEN [vehs  |-> [vehs EXCEPT ![i].messages_sent = @ + 1,
                                          ![i].anomalies_detected = @ + 1],
                   anoms |-> Append(anoms,
                               Anomaly(ctx.tick, v.id, v.id,
                                       IF v.is_attacker THEN ctx.aatk ELSE "unknown",
                                       IF v.is_attacker THEN "high" ELSE "medium"))]
             ELSE [vehs  |-> [vehs EXCEPT ![i].messages_sent = @ + 1],
                   anoms |-> anoms] :
               anomalous \in DetectAnomaly(v.speed, ctx.params.detection_sensitivity)}

\* One iteration of "for v in self.vehicles" past the "stopped" test, up to
\* the beacon.
VehicleBody(vehs, anoms, i, ctx) ==
    UNION {{[vehs |-> [h.vehs EXCEPT ![i] = m], anoms |-> h.anoms] :
              m \in IF Recover(h.vehs[i]).status = "moving"
                    THEN MoveVehicle(Recover(h.vehs[i]), ctx.lights,
                                     ctx.params.global_speed_multiplier)
                    ELSE {Recover(h.vehs[i])}} :
             h \in HackerLogic(vehs, anoms, i, ctx)}

\* The loop from vehicle i on.  raised: the beacon test divided by zero, which
\* ends step() there.
RECURSIVE VehicleLoop(_, _, _, _)
VehicleLoop(i, vehs, anoms, ctx) ==
    IF i > Len(vehs) THEN {[vehs |-> vehs, anoms |-> anoms, raised |-> FALSE]}
    ELSE IF vehs[i].status = "stopped" THEN VehicleLoop(i + 1, vehs, anoms, ctx)
    ELSE UNION {IF BeaconEvery(ctx.params.message_frequency) = 0
                THEN {[vehs |-> b.vehs, anoms |-> b.anoms, raised |-> TRUE]}
                ELSE UNION {VehicleLoop(i + 1, c.vehs, c.anoms, ctx) :
                              c \in Beacon(b.vehs, b.anoms, i, ctx)} :
                  b \in VehicleBody(vehs, anoms, i, ctx)}

\* "V2V Communication": the pairs in range, in the order of the scan
RECURSIVE V2VPairs(_, _, _, _)
V2VPairs(vehs, i, j, range) ==
    IF i > Len(vehs) THEN <<>>
    ELSE IF j > Len(vehs) THEN V2VPairs(vehs, i + 1, i + 2, range)
    ELSE (IF DistLess(vehs[i], vehs[j], range, 1, 1)
          THEN <<[from |-> vehs[i].id, to |-> vehs[j].id]>> ELSE <<>>)
         \o V2VPairs(vehs, i, j + 1, range)

\* messages_received after the scan
V2VReceive(vehs, range) ==
    [k \in 1..Len(vehs) |->
       [vehs[k] EXCEPT !.messages_received =
          @ + Cardinality({j \in 1..Len(vehs) :
                             j /= k /\ DistLess(vehs[k], vehs[j], range, 1, 1)})]]

\* The lights changing when the timer reaches 100 instead of past it.
TickLightsAtHundred(lights) ==
    [n \in DOMAIN lights |->
       IF lights[n].timer + 1 >= 100
       THEN [timer |-> 0,
             state |-> IF lights[n].state = "red" THEN "green" ELSE "red"]
       ELSE [timer |-> lights[n].timer + 1, state |-> lights[n].state]]

\* "Update Traffic Lights"
TickLights(lights) ==
    [n \in DOMAIN lights |->
       IF lights[n].timer + 1 > 100
       THEN [timer |-> 0,
             state |-> IF lights[n].state = "red" THEN "green" ELSE "red"]
       ELSE [timer |-> lights[n].timer + 1, state |-> lights[n].state]]

\* new_anomalies[-10:]
LastTen(s) == IF Len(s) <= 10 THEN s ELSE SubSeq(s, Len(s) - 9, Len(s))

-----------------------------------------------------------------------------
(* Initial state: SimulationEngine.__init__ *)

DefaultDefenseConfig ==
    [k \in DefenseKeys |->
       [enabled  |-> TRUE,
        strength |-> CASE k = "cryptographic_verification" -> 80
                       [] k = "plausibility_check"         -> 75
                       [] k = "trust_management"           -> 70
                       [] k = "misbehavior_detection"      -> 65
                       [] k = "collaborative_verification" -> 60
                       [] k = "rate_limiting"              -> 70
                       [] OTHER                            -> 85]]

\* params, scaled: multipliers, frequency and sensitivity times ten,
\* communication_range in 1e-5 degree.
DefaultParams ==
    [global_speed_multiplier |-> 5,
     message_frequency       |-> 10,
     detection_sensitivity   |-> 7,
     communication_range     |-> 500]

\* f"v_{i}" for the i a population of ten can hold
VehicleIds == <<"v_0", "v_1", "v_2", "v_3", "v_4", "v_5", "v_6", "v_7", "v_8", "v_9">>

\* The vehicle dict _generate_initial_vehicles appends: vehicle i of the
\* given type's max_speed, placed at the first node of its path.
MkVehicle(i, is_att, level, max_speed, path) ==
    [id                 |-> VehicleIds[i + 1],
     is_attacker        |-> is_att,
     defense_level      |-> IF is_att THEN "high" ELSE level,
     lat                |-> NodePos[path[1]][1],
     lon                |-> NodePos[path[1]][2],
     speed              |-> 0,
     max_speed          |-> max_speed,
     messages_sent      |-> 0,
     messages_received  |-> 0,
     anomalies_detected |-> 0,
     current_node       |-> path[1],
     target_node        |-> IF Len(path) > 1 THEN path[2] ELSE path[1],
     destination        |-> path[Len(path)],
     path               |-> path,
     status             |-> "moving",
     progress           |-> 0,
     hack_progress      |-> 0,
     target_vehicle     |-> None,
     waiting_at_light   |-> FALSE,
     hack_recovery_timer |-> 0]

\* The draws of _generate_initial_vehicles the model starts from: three
\* vehicles, the hacker first, the second one in radio range of the hacker
\* and of low or high defense level, the third one far away.
InitialVehicles ==
    {<<MkVehicle(0, TRUE, "high", 60,
                 <<"greenwich_battery", "greenwich_rector", "greenwich_cortlandt">>),
       MkVehicle(1, FALSE, l1, 40, <<"greenwich_rector", "greenwich_battery">>),
       MkVehicle(2, FALSE, "medium", 80,
                 <<"bway_murray", "bway_barclay", "bway_vesey">>)>> :
       l1 \in {"low", "high"}}

\* The draw of _init_traffic_lights the model starts from: every light red
\* and about to turn green.
InitialLights == {[n \in LightNodes |-> [state |-> "red", timer |-> 100]]}

\* No coroutine is served: the engine is driven directly.
NoTasks == <<>>

NoProbe == [key |-> None, sophistication |-> None, strength |-> 0, level |-> None,
            adjusted |-> 0, logs |-> {}]

Init ==
    /\ is_running = FALSE
    /\ step_count = 0
    /\ active_attack = None
    /\ attack_sophistication = "medium"
    /\ attack_logs = <<>>
    /\ defense_logs = <<>>
    /\ outcome_logs = <<>>
    /\ active_attacks = <<>>
    /\ defense_config = DefaultDefenseConfig
    /\ params = DefaultParams
    /\ vehicles \in InitialVehicles
    /\ traffic_lights \in InitialLights
    /\ v2v_messages = <<>>
    /\ anomaly_detections = <<>>
    /\ last_op = [op |-> "init", raised |-> FALSE, arg |-> 0, hit |-> FALSE]
    /\ calls = 0
    /\ tasks = NoTasks
    /\ origin = <<>>
    /\ probe = NoProbe

-----------------------------------------------------------------------------
(* Operations *)

State == [al |-> attack_logs, dl |-> defense_logs, ol |-> outcome_logs,
          aa |-> active_attacks]

\* The history of the AttackLogs in al: an entry per log saying which
\* operation initiated it (by), at which tick, due at which tick, and the
\* tick at which it left the status initiated (ended, NoStep until then).
Chronicle(al, aa, by, tick) ==
    [i \in 1..Len(al) |->
       IF i <= Len(origin)
       THEN IF origin[i].ended = NoStep /\ al[i].status /= "initiated"
            THEN [origin[i] EXCEPT !.ended = tick]
            ELSE origin[i]
       ELSE [by    |-> by,
             tick  |-> tick,
             due   |-> EntryOf(aa, al[i].id).resolution_step,
             ended |-> NoStep]]

\* The four logs after a handler, with their history.
Install(st, by, tick) ==
    /\ attack_logs' = st.al
    /\ defense_logs' = st.dl
    /\ outcome_logs' = st.ol
    /\ active_attacks' = st.aa
    /\ origin' = Chronicle(st.al, st.aa, by, tick)

\* start()
Start ==
    /\ is_running' = TRUE
    /\ last_op' = [op |-> "start", raised |-> FALSE, arg |-> 0, hit |-> FALSE]
    /\ UNCHANGED <<step_count, active_attack, attack_sophistication, attack_logs,
                   defense_logs, outcome_logs, active_attacks, defense_config,
                   params, vehicles, traffic_lights, v2v_messages,
                   anomaly_detections, origin, probe>>

\* stop()
Stop ==
    /\ is_running' = FALSE
    /\ last_op' = [op |-> "stop", raised |-> FALSE, arg |-> 0, hit |-> FALSE]
    /\ UNCHANGED <<step_count, active_attack, attack_sophistication, attack_logs,
                   defense_logs, outcome_logs, active_attacks, defense_config,
                   params, vehicles, traffic_lights, v2v_messages,
                   anomaly_detections, origin, probe>>

\* reset() without the clearing of the selected attack type.
ResetKeepAttack ==
    /\ is_running' = FALSE
    /\ step_count' = 0
    /\ v2v_messages' = <<>>
    /\ anomaly_detections' = <<>>
    /\ attack_logs' = <<>>
    /\ defense_logs' = <<>>
    /\ outcome_logs' = <<>>
    /\ active_attacks' = <<>>
    /\ traffic_lights' \in InitialLights
    /\ vehicles' \in InitialVehicles
    /\ origin' = <<>>
    /\ last_op' = [op |-> "reset", raised |-> FALSE, arg |-> 0, hit |-> FALSE]
    /\ UNCHANGED <<active_attack, attack_sophistication, defense_config, params,
                   probe>>

\* reset()
Reset ==
    /\ is_running' = FALSE
    /\ step_count' = 0
    /\ active_attack' = None
    /\ v2v_messages' = <<>>
    /\ anomaly_detections' = <<>>
    /\ attack_logs' = <<>>
    /\ defense_logs' = <<>>
    /\ outcome_logs' = <<>>
    /\ active_attacks' = <<>>
    /\ traffic_lights' \in InitialLights
    /\ vehicles' \in InitialVehicles
    /\ origin' = <<>>
    /\ last_op' = [op |-> "reset", raised |-> FALSE, arg |-> 0, hit |-> FALSE]
    /\ UNCHANGED <<attack_sophistication, defense_config, params, probe>>

\* set_attack(attack_type, sophistication)
SetAttack(attack_type, sophistication) ==
    /\ active_attack' = attack_type
    /\ attack_sophistication' = sophistication
    /\ UNCHANGED <<is_running, step_count, defense_config, params, traffic_lights,
                   v2v_messages, anomaly_detections, probe>>
    /\ IF ~Truthy(attack_type)
       THEN /\ vehicles' = [i \in 1..Len(vehicles) |-> ClearHack(vehicles[i])]
            /\ attack_logs' = CancelActive(attack_logs, active_attacks)
            /\ active_attacks' = <<>>
            /\ origin' = Chronicle(CancelActive(attack_logs, active_attacks), <<>>,
                                   "set_attack", step_count)
            /\ UNCHANGED <<defense_logs, outcome_logs>>
            /\ last_op' = [op |-> "set_attack", raised |-> FALSE, arg |-> 0, hit |-> FALSE]
       ELSE /\ UNCHANGED vehicles
            /\ IF FirstAttacker(vehicles) = <<>>
               THEN /\ UNCHANGED <<attack_logs, defense_logs, outcome_logs,
                                   active_attacks, origin>>
                    /\ last_op' = [op |-> "set_attack", raised |-> FALSE, arg |-> 0, hit |-> FALSE]
               ELSE LET r == InitiateAttack(State, vehicles,
                                            params.communication_range, attack_type,
                                            FirstAttacker(vehicles)[1], sophistication)
                    IN /\ last_op' = [op |-> "set_attack", raised |-> r.raised,
                                      arg |-> 0, hit |-> FALSE]
                       /\ IF r.id = 0
                          THEN Install(r.st, "set_attack", step_count)
                          ELSE \E d \in RandInt(ResolveDelayMin, ResolveDelayMax) :
                                 Install(SetResolution(r.st, r.id, step_count + d),
                                         "set_attack", step_count)

\* configure_defense storing the strength as given.
ConfigureDefenseNoClamp(defense_type, enabled, strength) ==
    /\ last_op' = [op |-> "configure_defense", raised |-> FALSE,
                   arg |-> [defense_type |-> defense_type, enabled |-> enabled,
                            strength |-> strength],
                   hit |-> defense_type \in DOMAIN defense_config]
    /\ defense_config' =
         IF defense_type \in DOMAIN defense_config
         THEN [defense_config EXCEPT
                 ![defense_type] =
                   [enabled  |-> IF enabled /= None THEN enabled = "true" ELSE @.enabled,
                    strength |-> IF strength /= NoArg
                                 THEN strength ELSE @.strength]]
         ELSE defense_config
    /\ UNCHANGED <<is_running, step_count, active_attack, attack_sophistication,
                   attack_logs, defense_logs, outcome_logs, active_attacks,
                   params, vehicles, traffic_lights, v2v_messages,
                   anomaly_detections, origin, probe>>

\* configure_defense(defense_type, enabled, strength)
ConfigureDefense(defense_type, enabled, strength) ==
    /\ last_op' = [op |-> "configure_defense", raised |-> FALSE,
                   arg |-> [defense_type |-> defense_type, enabled |-> enabled,
                            strength |-> strength],
                   hit |-> defense_type \in DOMAIN defense_config]
    /\ defense_config' =
         IF defense_type \in DOMAIN defense_config
         THEN [defense_config EXCEPT
                 ![defense_type] =
                   [enabled  |-> IF enabled /= None THEN enabled = "true" ELSE @.enabled,
                    strength |-> IF strength /= NoArg
                                 THEN Max(0, Min(100, strength)) ELSE @.strength]]
         ELSE defense_config
    /\ UNCHANGED <<is_running, step_count, active_attack, attack_sophistication,
                   attack_logs, defense_logs, outcome_logs, active_attacks,
                   params, vehicles, traffic_lights, v2v_messages,
                   anomaly_detections, origin, probe>>

\* update_params(params)
UpdateParams(p) ==
    /\ last_op' = [op |-> "update_params", raised |-> FALSE, arg |-> p, hit |-> FALSE]
    /\ params' = Merge(params, p)
    /\ UNCHANGED <<is_running, step_count, active_attack, attack_sophistication,
                   attack_logs, defense_logs, outcome_logs, active_attacks,
                   defense_config, vehicles, traffic_lights, v2v_messages,
                   anomaly_detections, origin, probe>>

\* update_vehicle merging into every vehicle when no vehicle has the id.
UpdateVehicleOrAll(vehicle_id, updates) ==
    /\ last_op' = [op |-> "update_vehicle", raised |-> FALSE,
                   arg |-> [vehicle_id |-> vehicle_id, updates |-> updates],
                   hit |-> FirstWithId(vehicles, vehicle_id) /= 0]
    /\ vehicles' =
         [i \in 1..Len(vehicles) |->
            IF FirstWithId(vehicles, vehicle_id) \in {0, i}
            THEN Merge(vehicles[i], updates)
            ELSE vehicles[i]]
    /\ UNCHANGED <<is_running, step_count, active_attack, attack_sophistication,
                   attack_logs, defense_logs, outcome_logs, active_attacks,
                   defense_config, params, traffic_lights, v2v_messages,
                   anomaly_detections, origin, probe>>

\* update_vehicle(vehicle_id, updates): the first vehicle with that id.
UpdateVehicle(vehicle_id, updates) ==
    /\ last_op' = [op |-> "update_vehicle", raised |-> FALSE,
                   arg |-> [vehicle_id |-> vehicle_id, updates |-> updates],
                   hit |-> FirstWithId(vehicles, vehicle_id) /= 0]
    /\ vehicles' =
         [i \in 1..Len(vehicles) |->
            IF i = FirstWithId(vehicles, vehicle_id)
            THEN Merge(vehicles[i], updates)
            ELSE vehicles[i]]
    /\ UNCHANGED <<is_running, step_count, active_attack, attack_sophistication,
                   attack_logs, defense_logs, outcome_logs, active_attacks,
                   defense_config, params, traffic_lights, v2v_messages,
                   anomaly_detections, origin, probe>>

\* A direct call resolve_attack(attack_id).
ResolveAttackCall(attack_id) ==
    /\ last_op' = [op |-> "resolve_attack", raised |-> FALSE, arg |-> attack_id,
                   hit |-> attack_id \in ActiveIds(active_attacks)]
    /\ \E st \in ResolveAttack(State, vehicles, defense_config, attack_id) :
         Install(st, "resolve_attack", step_count)
    /\ UNCHANGED <<is_running, step_count, active_attack, attack_sophistication,
                   defense_config, params, vehicles, traffic_lights, v2v_messages,
                   anomaly_detections, probe>>

\* s[:n] in place of s[-n:]: the oldest entries.
FirstN(s, n) == SubSeq(s, 1, Min(n, Len(s)))

\* s[-n:] of a Python list: the last n entries, all of them if fewer.
LastN(s, n) == IF Len(s) <= n THEN s ELSE SubSeq(s, Len(s) - n + 1, Len(s))

\* The dict get_current_state() returns, without the constant catalogs,
\* bounds and road geometry.
GetCurrentState ==
    [step                  |-> step_count,
     vehicles              |-> vehicles,
     messages              |-> <<>>,
     v2v_communications    |-> v2v_messages,
     anomalies             |-> anomaly_detections,
     active_attack         |-> active_attack,
     params                |-> params,
     lights                |-> traffic_lights,
     attack_logs           |-> LastN(attack_logs, 20),
     defense_logs          |-> LastN(defense_logs, 20),
     outcome_logs          |-> LastN(outcome_logs, 10),
     active_attacks_count  |-> Len(active_attacks),
     defense_config        |-> defense_config,
     attack_sophistication |-> attack_sophistication]

\* The dict step() returns, built from the state step() leaves; messages are
\* the beacons of the step.
StepReturn(messages) ==
    [step                  |-> step_count,
     vehicles              |-> vehicles,
     messages              |-> messages,
     v2v_communications    |-> v2v_messages,
     anomalies             |-> anomaly_detections,
     active_attack         |-> active_attack,
     params                |-> params,
     lights                |-> traffic_lights,
     attack_logs           |-> LastN(attack_logs, 20),
     defense_logs          |-> LastN(defense_logs, 20),
     outcome_logs          |-> LastN(outcome_logs, 10),
     active_attacks_count  |-> Len(active_attacks),
     defense_config        |-> defense_config,
     attack_sophistication |-> attack_sophistication]

\* get_current_state() emptying v2v_messages as step() does when it begins.
GetCurrentStateClearing ==
    /\ last_op' = [op |-> "get_current_state", raised |-> FALSE,
                   arg |-> GetCurrentState, hit |-> FALSE]
    /\ v2v_messages' = <<>>
    /\ UNCHANGED <<is_running, step_count, active_attack, attack_sophistication,
                   attack_logs, defense_logs, outcome_logs, active_attacks,
                   defense_config, params, vehicles, traffic_lights,
                   anomaly_detections, origin, probe>>

\* A call of get_current_state(); last_op.arg keeps the dict returned.
GetCurrentStateCall ==
    /\ last_op' = [op |-> "get_current_state", raised |-> FALSE,
                   arg |-> GetCurrentState, hit |-> FALSE]
    /\ UNCHANGED <<is_running, step_count, active_attack, attack_sophistication,
                   attack_logs, defense_logs, outcome_logs, active_attacks,
                   defense_config, params, vehicles, traffic_lights, v2v_messages,
                   anomaly_detections, origin, probe>>

\* step().  An exception ends it where it is raised: in the attack loop,
\* before any vehicle is touched; in the vehicle loop, before the V2V scan
\* and the assignment of anomaly_detections.  last_op.arg keeps new_anomalies,
\* the anomalies the vehicle loop has appended.
StepBody ==
    /\ step_count' = step_count + 1
    /\ traffic_lights' = TickLights(traffic_lights)
    /\ \E r \in ProcessDue([i \in 1..Len(active_attacks) |-> active_attacks[i].id],
                           State, step_count + 1, vehicles, defense_config,
                           params.communication_range, active_attack,
                           attack_sophistication) :
         /\ Install(r.st, "step", step_count + 1)
         /\ IF r.raised
            THEN /\ v2v_messages' = <<>>
                 /\ last_op' = [op |-> "step", raised |-> TRUE, arg |-> 0, hit |-> FALSE]
                 /\ UNCHANGED <<vehicles, anomaly_detections>>
            ELSE \E o \in VehicleLoop(1, vehicles, <<>>,
                                      [tick   |-> step_count + 1,
                                       aatk   |-> active_attack,
                                       soph   |-> attack_sophistication,
                                       params |-> params,
                                       lights |-> TickLights(traffic_lights)]) :
                   /\ last_op' = [op |-> "step", raised |-> o.raised,
                                  arg |-> o.anoms, hit |-> FALSE]
                   /\ IF o.raised
                      THEN /\ vehicles' = o.vehs
                           /\ v2v_messages' = <<>>
                           /\ UNCHANGED anomaly_detections
                      ELSE /\ vehicles' = V2VReceive(o.vehs, params.communication_range)
                           /\ v2v_messages' = V2VPairs(o.vehs, 1, 2,
                                                       params.communication_range)
                           /\ anomaly_detections' = LastTen(o.anoms)
    /\ UNCHANGED <<is_running, active_attack, attack_sophistication, defense_config,
                   params, probe>>

\* main.py, websocket_endpoint: the loop calls simulation.step() when
\* simulation.is_running.
Step ==
    /\ is_running
    /\ step_count < MaxStep
    /\ StepBody
    /\ UNCHANGED <<calls, tasks>>

\* One more control call, within the budget of the run.
Call ==
    /\ calls < MaxCalls
    /\ step_count \in CallTicks
    /\ calls' = calls + 1
    /\ UNCHANGED tasks

\* start() while stopped; on a running simulation it changes nothing.
StartCall == ~is_running /\ Start /\ UNCHANGED <<calls, tasks>>

StopCall == Call /\ Stop

ResetCall == Call /\ Reset

SetAttackCall ==
    \E a \in SetAttackInputs : Call /\ SetAttack(a.attack_type, a.sophistication)

ConfigureDefenseCall ==
    \E c \in ConfigureDefenseInputs :
      Call /\ ConfigureDefense(c.defense_type, c.enabled, c.strength)

UpdateParamsCall == \E p \in ParamsInputs : Call /\ UpdateParams(p)

UpdateVehicleCall ==
    \E u \in UpdateVehicleInputs : Call /\ UpdateVehicle(u.vehicle_id, u.updates)

Next ==
    \/ StartCall
    \/ StopCall
    \/ ResetCall
    \/ SetAttackCall
    \/ ConfigureDefenseCall
    \/ UpdateParamsCall
    \/ UpdateVehicleCall
    \/ Step

Spec == Init /\ [][Next]_vars

-----------------------------------------------------------------------------
(* Further specifications *)

\* Strength arguments the effectiveness formula is probed with, as given to
\* configure_defense, which clamps them.
StrengthInputs == {0 - 20, 0, 1, 50, 99, 100, 130}

\* process_defenses for one defense against one attack log, under every
\* configured strength and target defense level: what the roll is made
\* against, and the DefenseLogs that can come out.
ProbeEffectiveness ==
    /\ \E key \in DefenseKeys, soph \in {"low", "medium", "high"},
          s \in StrengthInputs, level \in Levels :
         LET strength == Max(0, Min(100, s))
             cfg == [defense_config EXCEPT ![key].strength = strength]
             al == [id |-> 1, attacker_id |-> "v_0", sophistication |-> soph]
         IN probe' = [key            |-> key,
                      sophistication |-> soph,
                      strength       |-> strength,
                      level          |-> level,
                      adjusted       |-> AdjustedEffectiveness(
                                           BaseEffectiveness(key, soph),
                                           strength, level),
                      logs           |-> DefenseRolls(<<key>>, al, cfg, level, 1)]
    /\ UNCHANGED <<is_running, step_count, active_attack, attack_sophistication,
                   attack_logs, defense_logs, outcome_logs, active_attacks,
                   defense_config, params, vehicles, traffic_lights, v2v_messages,
                   anomaly_detections, last_op, calls, tasks, origin>>

SpecEff == Init /\ [][ProbeEffectiveness]_vars

\* Number of control calls in a run that calls resolve_attack directly.
ResolveCalls == 3

\* Attack ids resolve_attack is called with directly: unknown (0) and the
\* first ones handed out.
ResolveIdInputs == 0..2

\* resolve_attack called from outside step()
ResolveCall ==
    \E id \in ResolveIdInputs :
      /\ calls < ResolveCalls
      /\ step_count \in CallTicks
      /\ calls' = calls + 1
      /\ UNCHANGED tasks
      /\ ResolveAttackCall(id)

\* set_attack with a known type, or with none, in such a run
ResolveSetAttack ==
    \E t \in {None, "message_suppression"} :
      /\ calls < ResolveCalls
      /\ step_count \in CallTicks
      /\ calls' = calls + 1
      /\ UNCHANGED tasks
      /\ SetAttack(t, "medium")

SpecResolve ==
    Init /\ [][StartCall \/ ResolveSetAttack \/ ResolveCall \/ Step]_vars

\* Number of set_attack calls in a burst.
BurstCalls == 3

\* Several set_attack calls in a row before the simulation is stepped, with a
\* sophistication of the catalog or one it does not know.
BurstSetAttack ==
    \E s \in {"high", "extreme"} :
      /\ calls < BurstCalls
      /\ step_count = 0
      /\ calls' = calls + 1
      /\ UNCHANGED tasks
      /\ SetAttack("message_suppression", s)

SpecBurst == Init /\ [][StartCall \/ BurstSetAttack \/ Step]_vars

\* Number of update_params calls in a run that watches the movement.
MoveCalls == 2

\* Number of steps of such a run.
MoveSteps == 16

\* The ticks at which such a run calls update_params: before the first step,
\* and when the fastest vehicle is past eight tenths of its first edge.
MoveTicks == {0, 8}

\* global_speed_multiplier (times ten) as update_params installs it: any
\* number is accepted; backwards, standstill, fifty-fold.
MoveParamsInputs ==
    {[global_speed_multiplier |-> 0 - 500],
     [global_speed_multiplier |-> 0],
     [global_speed_multiplier |-> 500]}

\* Draws of _init_traffic_lights: red or green, the timer fresh, ten steps
\* before the change, or at the change.
MoveLights ==
    {[n \in LightNodes |-> [state |-> c, timer |-> t]] :
       c \in {"red", "green"}, t \in {0, 90, 100}}

\* Draws of _generate_initial_vehicles with longer routes: the hacker up
\* Greenwich Street, a truck one block from its destination, an emergency
\* vehicle down the whole of Broadway.
MoveVehicles ==
    {<<MkVehicle(0, TRUE, "high", 60,
                 <<"greenwich_battery", "greenwich_rector", "greenwich_cortlandt",
                   "greenwich_fulton", "greenwich_vesey">>),
       MkVehicle(1, FALSE, "low", 40, <<"greenwich_rector", "greenwich_battery">>),
       MkVehicle(2, FALSE, "medium", 80,
                 <<"bway_murray", "bway_barclay", "bway_vesey", "bway_fulton",
                   "bway_cortlandt", "bway_rector", "bway_battery">>)>>}

\* __init__ with these draws of the lights and of the vehicles
InitMove ==
    /\ is_running = FALSE
    /\ step_count = 0
    /\ active_attack = None
    /\ attack_sophistication = "medium"
    /\ attack_logs = <<>>
    /\ defense_logs = <<>>
    /\ outcome_logs = <<>>
    /\ active_attacks = <<>>
    /\ defense_config = DefaultDefenseConfig
    /\ params = DefaultParams
    /\ vehicles \in MoveVehicles
    /\ traffic_lights \in MoveLights
    /\ v2v_messages = <<>>
    /\ anomaly_detections = <<>>
    /\ last_op = [op |-> "init", raised |-> FALSE, arg |-> 0, hit |-> FALSE]
    /\ calls = 0
    /\ tasks = NoTasks
    /\ origin = <<>>
    /\ probe = NoProbe

MoveUpdateParams ==
    \E p \in MoveParamsInputs :
      /\ calls < MoveCalls
      /\ step_count \in MoveTicks
      /\ calls' = calls + 1
      /\ UNCHANGED tasks
      /\ UpdateParams(p)

MoveStep ==
    /\ is_running
    /\ step_count < MoveSteps
    /\ StepBody
    /\ UNCHANGED <<calls, tasks>>

SpecMove == InitMove /\ [][StartCall \/ MoveUpdateParams \/ MoveStep]_vars

\* Number of control calls in a run with the radio range at zero.
RangeCalls == 3

\* Number of steps of such a run.
RangeSteps == 6

\* The ticks at which such a run makes its control calls.
RangeTicks == {0, 3}

\* update_params({"communication_range": 0})
RangeUpdateParams ==
    /\ calls < RangeCalls
    /\ step_count \in RangeTicks
    /\ calls' = calls + 1
    /\ UNCHANGED tasks
    /\ UpdateParams([communication_range |-> 0])

\* update_vehicle gives the far vehicle the place, the route and the speed
\* the first vehicle (the hacker) has at the moment: from then on the two
\* occupy the same position.
RangeUpdateVehicle ==
    /\ calls < RangeCalls
    /\ step_count \in RangeTicks
    /\ calls' = calls + 1
    /\ UNCHANGED tasks
    /\ UpdateVehicle("v_2", [lat          |-> vehicles[1].lat,
                             lon          |-> vehicles[1].lon,
                             current_node |-> vehicles[1].current_node,
                             target_node  |-> vehicles[1].target_node,
                             destination  |-> vehicles[1].destination,
                             path         |-> vehicles[1].path,
                             progress     |-> vehicles[1].progress,
                             max_speed    |-> vehicles[1].max_speed])

\* set_attack with a type of the catalog
RangeSetAttack ==
    /\ calls < RangeCalls
    /\ step_count \in RangeTicks
    /\ calls' = calls + 1
    /\ UNCHANGED tasks
    /\ SetAttack("message_replay", "medium")

RangeStep ==
    /\ is_running
    /\ step_count < RangeSteps
    /\ StepBody
    /\ UNCHANGED <<calls, tasks>>

SpecRange ==
    Init /\ [][StartCall \/ RangeUpdateParams \/ RangeUpdateVehicle
                 \/ RangeSetAttack \/ RangeStep]_vars

\* The population __init__ and reset() ask for:
\* _generate_initial_vehicles(count=10).
VehicleCount == 10

\* The attempts at a destination the generator makes for one vehicle.
MaxAttempts == 10

\* VEHICLE_TYPES[vtype]["max_speed"]
MaxSpeedOf(vtype) ==
    CASE vtype = "passenger" -> 60
      [] vtype = "truck"     -> 40
      [] vtype = "emergency" -> 80
      [] OTHER               -> 35

\* The defense level a roll (random.random(), in hundredths) assigns
LevelOfRoll(defense_roll) ==
    IF defense_roll < 30 THEN "low"
    ELSE IF defense_roll < 75 THEN "medium"
    ELSE "high"

\* The destination loop: the position of the first of at most MaxAttempts
\* draws that differs from the start node; if none does, the last attempt.
LastAttempt(start, ends) ==
    LET n == Min(MaxAttempts, Len(ends))
        good == {k \in 1..n : /\ ends[k] /= start
                              /\ ShortestPaths(start, ends[k]) \ {<<>>} /= {}}
    IN IF good = {} THEN n ELSE CHOOSE k \in good : \A m \in good : k <= m

\* The hacker marking without the defense level.
MarkHackerKeepLevel(vehs) ==
    IF Len(vehs) > 0 THEN [vehs EXCEPT ![1].is_attacker = TRUE] ELSE vehs

\* "Add Hacker": the first vehicle generated becomes the attacker, with a
\* high defense level.
MarkHacker(vehs) ==
    IF Len(vehs) > 0
    THEN [vehs EXCEPT ![1].is_attacker = TRUE, ![1].defense_level = "high"]
    ELSE vehs

\* The loop of _generate_initial_vehicles from vehicle i on, with the draws
\* ds[i + 1] of vehicle i; a vehicle without a path is left out.
RECURSIVE GenerateFrom(_, _, _, _)
GenerateFrom(i, count, ds, acc) ==
    IF i >= count THEN {acc}
    ELSE LET d == ds[i + 1]
             vtype == IF d.truck_roll < 40 THEN "truck" ELSE d.vtype
             end_node == d.ends[LastAttempt(d.start, d.ends)]
             paths == ShortestPaths(d.start, end_node) \ {<<>>}
         IN IF paths = {} THEN GenerateFrom(i + 1, count, ds, acc)
            ELSE UNION {GenerateFrom(i + 1, count, ds,
                                     Append(acc, MkVehicle(i, FALSE,
                                                           LevelOfRoll(d.defense_roll),
                                                           MaxSpeedOf(vtype), path))) :
                          path \in paths}

\* _generate_initial_vehicles(count) under the draws ds
GenerateInitialVehicles(count, ds) ==
    {MarkHacker(vehs) : vehs \in GenerateFrom(0, count, ds, <<>>)}

\* Draws for one vehicle: a passenger car of low defense level one block from
\* its destination; a bus turned truck whose first destination draw is its
\* start node, of medium level (the roll on the boundary 0.3); an emergency
\* vehicle of high level all of whose destination draws are its start node.
GenDraws ==
    <<[vtype |-> "passenger", truck_roll |-> 40, start |-> "greenwich_battery",
       ends |-> <<"greenwich_rector">>, defense_roll |-> 29],
      [vtype |-> "bus", truck_roll |-> 39, start |-> "bway_murray",
       ends |-> <<"bway_murray", "bway_vesey">>, defense_roll |-> 30],
      [vtype |-> "emergency", truck_roll |-> 99, start |-> "church_fulton",
       ends |-> [k \in 1..MaxAttempts |-> "church_fulton"], defense_roll |-> 75]>>

\* The draws of a whole population: the first three vehicles take any of
\* the draws above, the others take them in turn.
GenDrawSeqs ==
    {[i \in 1..VehicleCount |->
        IF i <= 3 THEN GenDraws[f[i]] ELSE GenDraws[((i + o) % 3) + 1]] :
       f \in [1..3 -> 1..3], o \in 0..2}

\* __init__ with a generated population
InitGen ==
    /\ is_running = FALSE
    /\ step_count = 0
    /\ active_attack = None
    /\ attack_sophistication = "medium"
    /\ attack_logs = <<>>
    /\ defense_logs = <<>>
    /\ outcome_logs = <<>>
    /\ active_attacks = <<>>
    /\ defense_config = DefaultDefenseConfig
    /\ params = DefaultParams
    /\ \E ds \in GenDrawSeqs : vehicles \in GenerateInitialVehicles(VehicleCount, ds)
    /\ traffic_lights \in InitialLights
    /\ v2v_messages = <<>>
    /\ anomaly_detections = <<>>
    /\ last_op = [op |-> "init", raised |-> FALSE, arg |-> 0, hit |-> FALSE]
    /\ calls = 0
    /\ tasks = NoTasks
    /\ origin = <<>>
    /\ probe = NoProbe

\* reset() with a generated population
GenReset ==
    /\ is_running' = FALSE
    /\ step_count' = 0
    /\ active_attack' = None
    /\ v2v_messages' = <<>>
    /\ anomaly_detections' = <<>>
    /\ attack_logs' = <<>>
    /\ defense_logs' = <<>>
    /\ outcome_logs' = <<>>
    /\ active_attacks' = <<>>
    /\ traffic_lights' \in InitialLights
    /\ \E ds \in GenDrawSeqs : vehicles' \in GenerateInitialVehicles(VehicleCount, ds)
    /\ origin' = <<>>
    /\ last_op' = [op |-> "reset", raised |-> FALSE, arg |-> 0, hit |-> FALSE]
    /\ UNCHANGED <<attack_sophistication, defense_config, params, probe, calls, tasks>>

SpecGen == InitGen /\ [][GenReset]_vars

\* Number of control calls in a run that starts and stops the simulation.
ToggleCalls == 4

\* Number of steps of such a run.
ToggleSteps == 4

\* POST /control/start, whatever is_running is
ToggleStart ==
    /\ calls < ToggleCalls
    /\ calls' = calls + 1
    /\ UNCHANGED tasks
    /\ Start

\* POST /control/stop, whatever is_running is
ToggleStop ==
    /\ calls < ToggleCalls
    /\ calls' = calls + 1
    /\ UNCHANGED tasks
    /\ Stop

\* POST /control/attack: a control call that changes the logs, running or not
ToggleSetAttack ==
    /\ calls < ToggleCalls
    /\ calls' = calls + 1
    /\ UNCHANGED tasks
    /\ SetAttack("message_replay", "low")

\* The push loop stepping whether the simulation is running or not.
ToggleStepWhileStopped ==
    /\ step_count < ToggleSteps
    /\ StepBody
    /\ UNCHANGED <<calls, tasks>>

\* One iteration of the push loop of websocket_endpoint: step() when
\* simulation.is_running, otherwise sleep.
ToggleStep ==
    /\ is_running
    /\ step_count < ToggleSteps
    /\ StepBody
    /\ UNCHANGED <<calls, tasks>>

SpecToggle == Init /\ [][ToggleStart \/ ToggleStop \/ ToggleSetAttack \/ ToggleStep]_vars

\* Number of set_attack calls with a catalog type in a run that fills the
\* logs past the lengths get_current_state() and step() report.
SnapAttacks == 21

\* Number of steps of such a run: one past the tick at which the attacks
\* made at tick 0 are due.
SnapSteps == 31

\* Draws of _generate_initial_vehicles for a population of ten: the hacker
\* at the Battery, one car of medium or high defense level next to it, the
\* other eight more than the radio range away, every route one block long.
SnapDraws ==
    {<<[vtype |-> "passenger", truck_roll |-> 40, start |-> "greenwich_battery",
        ends |-> <<"greenwich_rector">>, defense_roll |-> 50],
       [vtype |-> "passenger", truck_roll |-> 40, start |-> "bway_battery",
        ends |-> <<"bway_rector">>, defense_roll |-> r],
       [vtype |-> "emergency", truck_roll |-> 40, start |-> "greenwich_vesey",
        ends |-> <<"greenwich_barclay">>, defense_roll |-> 10],
       [vtype |-> "bus", truck_roll |-> 40, start |-> "wbway_vesey",
        ends |-> <<"wbway_barclay">>, defense_roll |-> 50],
       [vtype |-> "bus", truck_roll |-> 10, start |-> "church_vesey",
        ends |-> <<"church_barclay">>, defense_roll |-> 90],
       [vtype |-> "passenger", truck_roll |-> 40, start |-> "bway_vesey",
        ends |-> <<"bway_barclay">>, defense_roll |-> 10],
       [vtype |-> "emergency", truck_roll |-> 40, start |-> "greenwich_murray",
        ends |-> <<"greenwich_barclay">>, defense_roll |-> 50],
       [vtype |-> "passenger", truck_roll |-> 40, start |-> "wbway_murray",
        ends |-> <<"wbway_barclay">>, defense_roll |-> 90],
       [vtype |-> "bus", truck_roll |-> 40, start |-> "church_murray",
        ends |-> <<"church_barclay">>, defense_roll |-> 10],
       [vtype |-> "passenger", truck_roll |-> 10, start |-> "bway_murray",
        ends |-> <<"bway_barclay">>, defense_roll |-> 50]>> : r \in {50, 80}}

\* __init__ with these draws
InitSnap ==
    /\ is_running = FALSE
    /\ step_count = 0
    /\ active_attack = None
    /\ attack_sophistication = "medium"
    /\ attack_logs = <<>>
    /\ defense_logs = <<>>
    /\ outcome_logs = <<>>
    /\ active_attacks = <<>>
    /\ defense_config = DefaultDefenseConfig
    /\ params = DefaultParams
    /\ \E ds \in SnapDraws : vehicles \in GenerateInitialVehicles(VehicleCount, ds)
    /\ traffic_lights \in InitialLights
    /\ v2v_messages = <<>>
    /\ anomaly_detections = <<>>
    /\ last_op = [op |-> "init", raised |-> FALSE, arg |-> 0, hit |-> FALSE]
    /\ calls = 0
    /\ tasks = NoTasks
    /\ origin = <<>>
    /\ probe = NoProbe

\* First call: a beacon from every vehicle in every step, each of them
\* reported as an anomaly (message_frequency 10.0, detection_sensitivity 2.0).
SnapUpdateParams ==
    /\ calls = 0
    /\ calls' = 1
    /\ UNCHANGED tasks
    /\ UpdateParams([message_frequency |-> 100, detection_sensitivity |-> 20])

\* Second and third call: the two defenses that apply to message_replay are
\* set to strength 0 (their rolls then fail), or the second one is disabled.
SnapConfigureDefense ==
    /\ calls \in {1, 2}
    /\ calls' = calls + 1
    /\ UNCHANGED tasks
    /\ \/ ConfigureDefense(IF calls = 1 THEN "cryptographic_verification"
                           ELSE "timestamp_validation", None, 0)
       \/ calls = 2 /\ ConfigureDefense("timestamp_validation", "false", NoArg)

\* Then set_attack with a catalog type, up to SnapAttacks times; of the draws
\* of the resolution delay the run follows the shortest.
SnapSetAttack ==
    /\ calls \in 3..(SnapAttacks + 2)
    /\ Truthy(active_attack) => active_attack \in ATTACK_TYPES
    /\ calls' = calls + 1
    /\ UNCHANGED tasks
    /\ SetAttack("message_replay", "high")
    /\ \A i \in 1..Len(active_attacks') :
         active_attacks'[i].resolution_step = step_count + ResolveDelayMin

\* Then set_attack with a type outside the catalog: the attacks made so far
\* stay active and are not re-triggered when they resolve.
SnapDeselect ==
    /\ calls >= 3
    /\ Truthy(active_attack) => active_attack \in ATTACK_TYPES
    /\ calls' = calls + 1
    /\ UNCHANGED tasks
    /\ SetAttack("no_such_attack", "high")

\* Then start()
SnapStart ==
    /\ active_attack = "no_such_attack"
    /\ ~is_running
    /\ Start
    /\ UNCHANGED <<calls, tasks>>

SnapStep ==
    /\ is_running
    /\ step_count < SnapSteps
    /\ StepBody
    /\ UNCHANGED <<calls, tasks>>

\* get_current_state() at any moment
SnapGetCurrentState == GetCurrentStateCall /\ UNCHANGED <<calls, tasks>>

SpecSnap ==
    InitSnap /\ [][SnapUpdateParams \/ SnapConfigureDefense \/ SnapSetAttack
                     \/ SnapDeselect \/ SnapStart \/ SnapStep
                     \/ SnapGetCurrentState]_vars

\* Number of set_attack calls in a run of step() and set_attack() alone.
HackCalls == 2

\* Number of steps of such a run: a hack of the car next to the hacker
\* completes in the thirteenth when its defense level is high.
HackSteps == 16

\* The ticks at which such a run calls set_attack: before the first step,
\* while the hack is going on, and after it has completed.
HackTicks == {0, 6, 14}

\* Arguments of set_attack in such a run
HackSetAttackInputs ==
    {[attack_type |-> "message_replay", sophistication |-> "high"],
     [attack_type |-> "sybil",          sophistication |-> "low"],
     [attack_type |-> None,             sophistication |-> "medium"]}

HackSetAttack ==
    \E a \in HackSetAttackInputs :
      /\ calls < HackCalls
      /\ step_count \in HackTicks
      /\ calls' = calls + 1
      /\ UNCHANGED tasks
      /\ SetAttack(a.attack_type, a.sophistication)

HackStep ==
    /\ is_running
    /\ step_count < HackSteps
    /\ StepBody
    /\ UNCHANGED <<calls, tasks>>

SpecHack == Init /\ [][StartCall \/ HackSetAttack \/ HackStep]_vars

-----------------------------------------------------------------------------
\* The served application (main.py): one SimulationEngine, and coroutines of
\* one event loop that call it.  An entry of tasks is a coroutine: a websocket
\* connection in websocket_endpoint or an HTTP request in a control endpoint,
\* with its position and whether the loop is running it.  A coroutine that
\* the loop runs keeps the loop until it reaches an await or returns.
ServeTasks == 4

ServeSteps == 2

\* The control endpoints of main.py, each with one request body.
Endpoints == {"start", "stop", "reset", "attack", "params", "vehicle"}

\* No coroutine is being run: the loop can resume one that is ready.
LoopIdle == \A i \in 1..Len(tasks) : ~tasks[i].running

\* A step of a coroutine that does not call the engine
ServeEngineUnchanged ==
    UNCHANGED <<is_running, step_count, active_attack, attack_sophistication,
                attack_logs, defense_logs, outcome_logs, active_attacks,
                defense_config, params, vehicles, traffic_lights, v2v_messages,
                anomaly_detections, last_op, calls, origin, probe>>

\* A client opens /ws: a coroutine for websocket_endpoint, at
\* await websocket.accept().
WsConnect ==
    /\ Len(tasks) < ServeTasks
    /\ tasks' = Append(tasks, [kind |-> "ws", pc |-> "accept", endpoint |-> None,
                               running |-> FALSE])
    /\ ServeEngineUnchanged

\* A client posts to a control endpoint: a coroutine for its handler.
HttpRequest ==
    \E e \in Endpoints :
      /\ Len(tasks) < ServeTasks
      /\ tasks' = Append(tasks, [kind |-> "http", pc |-> "pending", endpoint |-> e,
                                 running |-> FALSE])
      /\ ServeEngineUnchanged

\* websocket_endpoint resumed after accept() or a sleep: the loop's test of
\* simulation.is_running, up to the call of step() or to the sleep of the
\* else branch.
WsWake(i) ==
    /\ LoopIdle
    /\ tasks[i].kind = "ws"
    /\ tasks[i].pc \in {"accept", "sleep", "idle"}
    /\ is_running => step_count < ServeSteps
    /\ tasks' = IF is_running
                THEN [tasks EXCEPT ![i].pc = "in_step", ![i].running = TRUE]
                ELSE [tasks EXCEPT ![i].pc = "idle"]
    /\ ServeEngineUnchanged

\* simulation.step() in websocket_endpoint, up to await send_json; an
\* exception of the step ends the coroutine.
WsStep(i) ==
    /\ tasks[i].pc = "in_step"
    /\ StepBody
    /\ tasks' = [tasks EXCEPT ![i].pc = IF last_op'.raised THEN "closed"
                                        ELSE "send_json",
                              ![i].running = FALSE]
    /\ UNCHANGED calls

\* send_json has completed, or has raised WebSocketDisconnect; then
\* await asyncio.sleep(0.1).
WsSent(i) ==
    /\ LoopIdle
    /\ tasks[i].pc = "send_json"
    /\ \E p \in {"sleep", "closed"} : tasks' = [tasks EXCEPT ![i].pc = p]
    /\ ServeEngineUnchanged

\* A handler that is run by a worker thread, as a plain def endpoint is: it
\* does not wait for the loop.
HttpResumeThread(i) ==
    /\ tasks[i].kind = "http"
    /\ tasks[i].pc = "pending"
    /\ tasks' = [tasks EXCEPT ![i].pc = "in_call"]
    /\ ServeEngineUnchanged

\* The loop starts the handler of a request: the endpoints are async def.
HttpResume(i) ==
    /\ LoopIdle
    /\ tasks[i].kind = "http"
    /\ tasks[i].pc = "pending"
    /\ tasks' = [tasks EXCEPT ![i].pc = "in_call", ![i].running = TRUE]
    /\ ServeEngineUnchanged

\* The body of the handler: the call of the engine, and the return.
HttpCall(i) ==
    /\ tasks[i].pc = "in_call"
    /\ tasks' = [tasks EXCEPT ![i].pc = "done", ![i].running = FALSE]
    /\ calls' = calls + 1
    /\ CASE tasks[i].endpoint = "start"   -> Start
         [] tasks[i].endpoint = "stop"    -> Stop
         [] tasks[i].endpoint = "reset"   -> Reset
         [] tasks[i].endpoint = "attack"  -> SetAttack("message_replay", "medium")
         [] tasks[i].endpoint = "params"  -> UpdateParams([communication_range |-> 800])
         [] tasks[i].endpoint = "vehicle" ->
              UpdateVehicle("v_1", [defense_level |-> "high"])

ServeNext ==
    \/ WsConnect
    \/ HttpRequest
    \/ \E i \in 1..Len(tasks) : WsWake(i)
    \/ \E i \in 1..Len(tasks) : WsStep(i)
    \/ \E i \in 1..Len(tasks) : WsSent(i)
    \/ \E i \in 1..Len(tasks) : HttpResume(i)
    \/ \E i \in 1..Len(tasks) : HttpCall(i)

SpecServe == Init /\ [][ServeNext]_vars

\* Number of control calls in a run about the targets of initiate_attack.
TargetsCalls == 3

\* Number of steps of such a run: past the tick at which an attack made at
\* tick 0 with the shortest delay is resolved and re-triggered.
TargetsSteps == 31

\* The ticks at which such a run makes its control calls.
TargetsTicks == {0, 29}

\* A population of seven: the hacker at the Battery; v_1 out of twice the
\* radio range; v_2 just inside it and driving away; v_3 the nearest; v_4,
\* v_5 and v_6 inside it.  In list order the first three inside are not the
\* three nearest.
TargetsVehicles ==
    {<<MkVehicle(0, TRUE, "high", 60, <<"greenwich_battery", "greenwich_rector">>),
       MkVehicle(1, FALSE, "low", 40, <<"greenwich_barclay", "greenwich_murray">>),
       MkVehicle(2, FALSE, "medium", 60, <<"greenwich_vesey", "greenwich_barclay">>),
       MkVehicle(3, FALSE, "high", 60, <<"bway_battery", "greenwich_battery">>),
       MkVehicle(4, FALSE, "medium", 40, <<"greenwich_rector", "greenwich_battery">>),
       MkVehicle(5, FALSE, "low", 80, <<"wbway_rector", "greenwich_rector">>),
       MkVehicle(6, FALSE, "medium", 35,
                 <<"greenwich_cortlandt", "greenwich_rector">>)>>}

\* __init__ with this population
InitTargets ==
    /\ is_running = FALSE
    /\ step_count = 0
    /\ active_attack = None
    /\ attack_sophistication = "medium"
    /\ attack_logs = <<>>
    /\ defense_logs = <<>>
    /\ outcome_logs = <<>>
    /\ active_attacks = <<>>
    /\ defense_config = DefaultDefenseConfig
    /\ params = DefaultParams
    /\ vehicles \in TargetsVehicles
    /\ traffic_lights \in InitialLights
    /\ v2v_messages = <<>>
    /\ anomaly_detections = <<>>
    /\ last_op = [op |-> "init", raised |-> FALSE, arg |-> 0, hit |-> FALSE]
    /\ calls = 0
    /\ tasks = NoTasks
    /\ origin = <<>>
    /\ probe = NoProbe

\* update_params: half the radio range, so that twice the range is 500.
TargetsUpdateParams ==
    /\ calls < TargetsCalls
    /\ step_count \in TargetsTicks
    /\ calls' = calls + 1
    /\ UNCHANGED tasks
    /\ UpdateParams([communication_range |-> 250])

\* update_vehicle: v_3 is put at distance 500 (300 north, 400 east) of the
\* hacker's place; v_4 is flagged as a second attacker; the hacker v_0 loses
\* its flag.
TargetsUpdateVehicle ==
    \E u \in {[vehicle_id |-> "v_3",
               updates |-> [lat |-> vehicles[1].lat + 300,
                            lon |-> vehicles[1].lon + 400]],
              [vehicle_id |-> "v_4", updates |-> [is_attacker |-> TRUE]],
              [vehicle_id |-> "v_0", updates |-> [is_attacker |-> FALSE]]} :
      /\ calls < TargetsCalls
      /\ step_count \in TargetsTicks
      /\ calls' = calls + 1
      /\ UNCHANGED tasks
      /\ UpdateVehicle(u.vehicle_id, u.updates)

\* set_attack with a type of the catalog; of the draws of the resolution
\* delay the run follows the shortest.
TargetsSetAttack ==
    /\ calls < TargetsCalls
    /\ step_count \in TargetsTicks
    /\ calls' = calls + 1
    /\ UNCHANGED tasks
    /\ SetAttack("message_replay", "medium")
    /\ \A i \in 1..Len(active_attacks') :
         active_attacks'[i].resolution_step <= step_count + ResolveDelayMin

TargetsStep ==
    /\ is_running
    /\ step_count < TargetsSteps
    /\ StepBody
    /\ UNCHANGED <<calls, tasks>>

SpecTargets ==
    InitTargets /\ [][StartCall \/ TargetsUpdateParams \/ TargetsUpdateVehicle
                        \/ TargetsSetAttack \/ TargetsStep]_vars

\* Number of control calls in a run about the traffic lights.
LightsCalls == 2

\* Number of steps of such a run: past the change of a light that starts
\* red with its timer at 80.
LightsSteps == 24

\* The ticks at which such a run makes its control calls.
LightsTicks == {0, 6}

\* Draws of _init_traffic_lights: every light red or green, twenty steps
\* before its change or at its change.
LightsLights ==
    {[n \in LightNodes |-> [state |-> c, timer |-> t]] :
       c \in {"red", "green"}, t \in {80, 100}}

\* Draws of _generate_initial_vehicles: the hacker and a car of low or high
\* defense level leave the Battery together, up Greenwich Street, for the
\* light at Rector Street; an emergency vehicle comes down Broadway.  No
\* route ends within the run.
LightsVehicles ==
    {<<MkVehicle(0, TRUE, "high", 60,
                 <<"greenwich_battery", "greenwich_rector", "greenwich_cortlandt",
                   "greenwich_fulton", "greenwich_vesey", "greenwich_barclay",
                   "greenwich_murray">>),
       MkVehicle(1, FALSE, l1, 40,
                 <<"greenwich_battery", "greenwich_rector", "greenwich_cortlandt",
                   "greenwich_fulton", "greenwich_vesey", "greenwich_barclay",
                   "greenwich_murray">>),
       MkVehicle(2, FALSE, "medium", 80,
                 <<"bway_murray", "bway_barclay", "bway_vesey", "bway_fulton",
                   "bway_cortlandt", "bway_rector", "bway_battery">>)>> :
       l1 \in {"low", "high"}}

\* __init__ with these draws
InitLights ==
    /\ is_running = FALSE
    /\ step_count = 0
    /\ active_attack = None
    /\ attack_sophistication = "medium"
    /\ attack_logs = <<>>
    /\ defense_logs = <<>>
    /\ outcome_logs = <<>>
    /\ active_attacks = <<>>
    /\ defense_config = DefaultDefenseConfig
    /\ params = DefaultParams
    /\ vehicles \in LightsVehicles
    /\ traffic_lights \in LightsLights
    /\ v2v_messages = <<>>
    /\ anomaly_detections = <<>>
    /\ last_op = [op |-> "init", raised |-> FALSE, arg |-> 0, hit |-> FALSE]
    /\ calls = 0
    /\ tasks = NoTasks
    /\ origin = <<>>
    /\ probe = NoProbe

\* update_params({"global_speed_multiplier": 50.0}) before the first step
LightsUpdateParams ==
    /\ calls < LightsCalls
    /\ step_count = 0
    /\ calls' = calls + 1
    /\ UNCHANGED tasks
    /\ UpdateParams([global_speed_multiplier |-> 500])

\* set_attack with a type of the catalog; of the draws of the resolution
\* delay the run follows the shortest.
LightsSetAttack ==
    \E s \in {"low", "high"} :
      /\ calls < LightsCalls
      /\ step_count \in LightsTicks
      /\ calls' = calls + 1
      /\ UNCHANGED tasks
      /\ SetAttack("message_replay", s)
      /\ \A i \in 1..Len(active_attacks') :
           active_attacks'[i].resolution_step <= step_count + ResolveDelayMin

LightsStep ==
    /\ is_running
    /\ step_count < LightsSteps
    /\ StepBody
    /\ UNCHANGED <<calls, tasks>>

SpecLights ==
    InitLights /\ [][StartCall \/ LightsUpdateParams \/ LightsSetAttack
                       \/ LightsStep]_vars

(* Properties *)

Terminal == {"blocked", "succeeded", "cancelled"}

Resolved == {"blocked", "succeeded"}

LogIndices == 1..Len(attack_logs)

\* The DefenseLogs recorded for an attack id
DefenseLogsOf(id) == {i \in 1..Len(defense_logs) : defense_logs[i].attack_id = id}

\* The AttackOutcomes recorded for an attack id
OutcomesOf(id) == {i \in 1..Len(outcome_logs) : outcome_logs[i].attack_id = id}

\* The logs a step (or a call) has just taken from initiated to blocked or
\* succeeded
JustResolved ==
    {i \in LogIndices : /\ i <= Len(attack_logs')
                        /\ attack_logs[i].status = "initiated"
                        /\ attack_logs'[i].status \in Resolved}

C4_BlockedIffSomeDefense ==
    \A i \in LogIndices :
      attack_logs[i].status \in Resolved =>
        LET id == attack_logs[i].id
            some == \E d \in DefenseLogsOf(id) : defense_logs[d].success
        IN /\ (attack_logs[i].status = "blocked") <=> some
           /\ OutcomesOf(id) /= {}
           /\ \A o \in OutcomesOf(id) :
                /\ outcome_logs[o].result = IF some THEN "blocked" ELSE "full_success"
                /\ outcome_logs[o].attack_succeeded = ~some

\* C4 witness: a blocked attack one of whose defenses succeeded and another
\* failed.
C4_Witness ==
    \E i \in LogIndices :
      /\ attack_logs[i].status = "blocked"
      /\ \E d, e \in DefenseLogsOf(attack_logs[i].id) :
           defense_logs[d].success /\ ~defense_logs[e].success

\* Every defense that applies to the attack type is disabled in cfg
AllApplicableDisabled(attack_type, cfg) ==
    \A k \in DefenseKeys :
      attack_type \in DEFENSE_TYPES[k].applicable_to => ~cfg[k].enabled

\* C5: when an attack is resolved while every defense applicable to its type
\* is disabled, no DefenseLog is recorded for it and it ends succeeded with
\* outcome full_success; and every DefenseLog a resolution records is of a
\* defense enabled at that moment.
C5_DisabledNeverLogs ==
    [][/\ \A i \in JustResolved :
            AllApplicableDisabled(attack_logs[i].attack_type, defense_config) =>
              /\ \A d \in 1..Len(defense_logs') :
                   defense_logs'[d].attack_id /= attack_logs[i].id
              /\ attack_logs'[i].status = "succeeded"
              /\ \E o \in 1..Len(outcome_logs') :
                   /\ outcome_logs'[o].attack_id = attack_logs[i].id
                   /\ outcome_logs'[o].result = "full_success"
       /\ \A d \in (Len(defense_logs) + 1)..Len(defense_logs') :
            defense_config[defense_logs'[d].defense_type].enabled]_vars

\* C5 witness: the step that has just ended resolved an attack all of whose
\* applicable defenses are disabled.
C5_Witness ==
    /\ last_op.op = "step"
    /\ \E i \in LogIndices :
         /\ attack_logs[i].status \in Resolved
         /\ origin[i].ended = step_count
         /\ AllApplicableDisabled(attack_logs[i].attack_type, defense_config)
         /\ \E k \in DefenseKeys :
              attack_logs[i].attack_type \in DEFENSE_TYPES[k].applicable_to

\* C6: for every defense, sophistication tier, strength a configuration can
\* hold (0..100) and target defense level, the effectiveness the roll is made
\* against is the smaller of 99 and base * strength/100 * bonus, hence within
\* 0..99 (x 1000 here), and every DefenseLog produced carries it as its
\* confidence, at most 0.99.
C6_EffectivenessCapped ==
    probe.key /= None =>
      LET raw == BaseEffectiveness(probe.key, probe.sophistication)
                   * probe.strength * DefenseBonus10(probe.level)
      IN /\ probe.strength \in 0..100
         /\ probe.adjusted = (IF raw > 99000 THEN 99000 ELSE raw)
         /\ probe.adjusted >= 0
         /\ probe.adjusted <= 99000
         /\ probe.logs /= {}
         /\ \A l \in probe.logs : \A i \in 1..Len(l) :
              l[i].confidence >= 0 /\ l[i].confidence <= 99000

\* C6 witness: strength 100 and the 1.5 bonus of a high defense level, where
\* the uncapped product exceeds 99.
C6_Witness ==
    /\ probe.strength = 100
    /\ probe.level = "high"
    /\ BaseEffectiveness(probe.key, probe.sophistication) * 100 * 15 > 99000
    /\ probe.adjusted = 99000

\* C7: resolve_attack on an id that is not active (already resolved,
\* cancelled, or unknown) changes nothing, and outcome_logs never holds two
\* AttackOutcomes of the same attack_id.
C7_ResolveIdempotent ==
    /\ [](\A o1, o2 \in 1..Len(outcome_logs) :
            outcome_logs[o1].attack_id = outcome_logs[o2].attack_id => o1 = o2)
    /\ [][(/\ last_op'.op = "resolve_attack"
           /\ last_op'.arg \notin ActiveIds(active_attacks)) =>
            UNCHANGED progVars]_vars

\* C7 witness: resolve_attack has just been called on an attack that had
\* been resolved before the call.
C7_Witness ==
    /\ last_op.op = "resolve_attack"
    /\ ~last_op.hit
    /\ \E i \in LogIndices :
         /\ attack_logs[i].id = last_op.arg
         /\ attack_logs[i].status \in Resolved

\* C8: the defense_ids of every AttackOutcome are ids of DefenseLogs of the
\* outcome's own attack, and every DefenseLog belongs to an attack whose
\* status is blocked or succeeded.
C8_OutcomeReferences ==
    /\ \A o \in 1..Len(outcome_logs) :
         \A k \in 1..Len(outcome_logs[o].defense_ids) :
           \E d \in DefenseLogsOf(outcome_logs[o].attack_id) :
             defense_logs[d].id = outcome_logs[o].defense_ids[k]
    /\ \A d \in 1..Len(defense_logs) :
         \E i \in LogIndices :
           /\ attack_logs[i].id = defense_logs[d].attack_id
           /\ attack_logs[i].status \in Resolved

\* C8 witness: two attacks have been resolved, each with DefenseLogs its
\* outcome refers to.
C8_Witness ==
    \E o1, o2 \in 1..Len(outcome_logs) :
      /\ o1 /= o2
      /\ outcome_logs[o1].defense_ids /= <<>>
      /\ outcome_logs[o2].defense_ids /= <<>>

\* C9: an attack initiated by set_attack at tick T is due at T + r with r in
\* 30..60; it is still initiated only while the tick is below T + r, and it
\* becomes blocked or succeeded, with an AttackOutcome, in the step that
\* brings the tick to T + r.
C9_ResolvedWhenDue ==
    \A i \in LogIndices :
      origin[i].by = "set_attack" =>
        /\ origin[i].due - origin[i].tick >= ResolveDelayMin
        /\ origin[i].due - origin[i].tick <= ResolveDelayMax
        /\ attack_logs[i].status = "initiated" => step_count < origin[i].due
        /\ attack_logs[i].status \in Resolved =>
             /\ origin[i].ended = origin[i].due
             /\ OutcomesOf(attack_logs[i].id) /= {}

\* C10: in a step taken while a known attack type is selected and an
\* attacker exists, every attack resolved is matched by one new AttackLog of
\* the selected type and sophistication, initiated and due at a later tick;
\* so such a step never leaves active_attacks empty if it was not.
C10_RetriggerEachResolution ==
    [][(/\ last_op'.op = "step"
        /\ active_attack \in ATTACK_TYPES
        /\ FirstAttacker(vehicles) /= <<>>) =>
         /\ Len(attack_logs') - Len(attack_logs) = Cardinality(JustResolved)
         /\ \A j \in (Len(attack_logs) + 1)..Len(attack_logs') :
              /\ attack_logs'[j].attack_type = active_attack
              /\ attack_logs'[j].sophistication = attack_sophistication
              /\ attack_logs'[j].status = "initiated"
              /\ attack_logs'[j].id \in ActiveIds(active_attacks')
              /\ EntryOf(active_attacks', attack_logs'[j].id).resolution_step
                   > step_count'
         /\ active_attacks /= <<>> => active_attacks' /= <<>>]_vars

\* The vehicles the step just taken has moved or held at a light: those that
\* were moving and were not stopped by the hacker before their turn.
Processed ==
    {k \in 1..Len(vehicles) :
       /\ last_op'.op = "step"
       /\ ~last_op'.raised
       /\ k <= Len(vehicles')
       /\ vehicles[k].status = "moving"
       /\ vehicles'[k].status /= "stopped"}

\* C11: after every step, every vehicle's progress is within [0, 1]
\* (0..100000 here), whatever update_params has installed.
C11_ProgressInUnitInterval ==
    \A k \in 1..Len(vehicles) :
      vehicles[k].progress >= 0 /\ vehicles[k].progress <= 100000

\* The vehicle is past eight tenths of its edge and its target node has a
\* light, which is red / green when the vehicle's turn comes in the step
\* (the lights are advanced at the start of the step).
AtLight(k) ==
    /\ vehicles[k].progress > 80000
    /\ vehicles[k].target_node \in DOMAIN traffic_lights'

LightIs(k, colour) == traffic_lights'[vehicles[k].target_node].state = colour

Held(k) ==
    /\ vehicles'[k].waiting_at_light
    /\ vehicles'[k].progress = vehicles[k].progress
    /\ vehicles'[k].lat = vehicles[k].lat
    /\ vehicles'[k].lon = vehicles[k].lon
    /\ vehicles'[k].current_node = vehicles[k].current_node

Arrived(k) ==
    /\ vehicles'[k].current_node = vehicles[k].target_node
    /\ vehicles'[k].progress = 0

\* C12 as stated: a moving vehicle past 0.8 of its edge before a red light
\* is held (waiting_at_light, progress, position and node unchanged); before
\* a green light waiting_at_light becomes false and progress advances, or
\* the vehicle arrives at the node.
C12_GreenAlwaysAdvances ==
    [][\A k \in Processed :
         AtLight(k) =>
           IF LightIs(k, "red") THEN Held(k)
           ELSE /\ ~vehicles'[k].waiting_at_light
                /\ \/ Arrived(k)
                   \/ vehicles'[k].progress > vehicles[k].progress]_vars

\* C12, amended: as above before a red light; before a green light
\* waiting_at_light becomes false and progress changes by move_dist /
\* edge_dist, whose sign is that of global_speed_multiplier: the vehicle
\* advances or arrives when the multiplier is positive, stays when it is 0
\* and goes back when it is negative.
C12_LightGate ==
    [][\A k \in Processed :
         AtLight(k) =>
           IF LightIs(k, "red") THEN Held(k)
           ELSE /\ ~vehicles'[k].waiting_at_light
                /\ \/ Arrived(k)
                   \/ /\ params.global_speed_multiplier > 0
                      /\ vehicles'[k].progress > vehicles[k].progress
                   \/ /\ params.global_speed_multiplier = 0
                      /\ vehicles'[k].progress = vehicles[k].progress
                   \/ /\ params.global_speed_multiplier < 0
                      /\ vehicles'[k].progress < vehicles[k].progress]_vars

\* C12 witness: the light ahead of the hacker's car has turned green in the
\* step just taken, and the car, which the red light was holding past 0.8
\* of the edge, has moved on by one step's worth of progress.
C12_Witness ==
    /\ last_op.op = "step"
    /\ step_count > 1
    /\ params.global_speed_multiplier = 500
    /\ LET v == vehicles[1]
       IN /\ v.status = "moving"
          /\ ~v.waiting_at_light
          /\ v.progress > 95000
          /\ v.target_node \in DOMAIN traffic_lights
          /\ traffic_lights[v.target_node] = [state |-> "green", timer |-> 0]

\* C13: while communication_range is 0, a step leaves v2v_messages empty,
\* adds to no vehicle's messages_received and gives no vehicle a
\* target_vehicle it did not have, even with two vehicles at one position;
\* and every AttackLog appended, by set_attack or by a step, has no target.
C13_ZeroRangeIsolates ==
    [][params.communication_range = 0 =>
         /\ last_op'.op = "step" =>
              /\ v2v_messages' = <<>>
              /\ \A k \in 1..Len(vehicles) :
                   /\ vehicles'[k].messages_received = vehicles[k].messages_received
                   /\ Truthy(vehicles'[k].target_vehicle) =>
                        vehicles'[k].target_vehicle = vehicles[k].target_vehicle
              /\ \A k \in 1..Len(vehicles) :
                   vehicles[k].is_attacker /\ vehicles[k].status = "moving" =>
                     ~Truthy(vehicles'[k].target_vehicle)
         /\ last_op'.op \in {"step", "set_attack"} =>
              \A j \in (Len(attack_logs) + 1)..Len(attack_logs') :
                attack_logs'[j].target_ids = <<>>]_vars

\* C13 witness: with the range at 0 and an attack type selected, a step has
\* been taken while a moving non-attacker stood at the hacker's position;
\* the hacker has no target and the attack initiated has none.
C13_Witness ==
    /\ last_op.op = "step"
    /\ params.communication_range = 0
    /\ Truthy(active_attack)
    /\ v2v_messages = <<>>
    /\ \E a, k \in 1..Len(vehicles) :
         /\ vehicles[a].is_attacker
         /\ vehicles[a].status = "moving"
         /\ ~Truthy(vehicles[a].target_vehicle)
         /\ ~vehicles[k].is_attacker
         /\ vehicles[k].status = "moving"
         /\ vehicles[k].lat = vehicles[a].lat
         /\ vehicles[k].lon = vehicles[a].lon
    /\ \E i \in LogIndices :
         /\ attack_logs[i].target_ids = <<>>
         /\ origin[i].tick < step_count

\* C14: in every step, a stopped non-attacker whose hack_recovery_timer is
\* positive (as a completed hack leaves it, at 50) has the timer decremented
\* by one, and is moving again when the timer reaches 0.
C14_StoppedRecovers ==
    [][(last_op'.op = "step" /\ ~last_op'.raised) =>
         \A k \in 1..Len(vehicles) :
           (/\ vehicles[k].status = "stopped"
            /\ ~vehicles[k].is_attacker
            /\ vehicles[k].hack_recovery_timer > 0) =>
             /\ vehicles'[k].hack_recovery_timer = vehicles[k].hack_recovery_timer - 1
             /\ vehicles'[k].hack_recovery_timer = 0 =>
                  vehicles'[k].status = "moving"]_vars

\* C15: after reset(), from any state: the three logs and active_attacks
\* are empty, no attack type is selected, the tick counter is 0, the V2V and
\* anomaly lists are empty, the simulation is not running, and the lights
\* and the vehicles are a fresh draw of the generators (every vehicle moving
\* from the first node of its route, untouched by any hack).
C15_ResetClears ==
    [][last_op'.op = "reset" =>
         /\ attack_logs' = <<>>
         /\ defense_logs' = <<>>
         /\ outcome_logs' = <<>>
         /\ active_attacks' = <<>>
         /\ active_attack' = None
         /\ step_count' = 0
         /\ v2v_messages' = <<>>
         /\ anomaly_detections' = <<>>
         /\ ~is_running'
         /\ traffic_lights' \in InitialLights
         /\ vehicles' \in InitialVehicles
         /\ \A k \in 1..Len(vehicles') :
              /\ vehicles'[k].status = "moving"
              /\ vehicles'[k].progress = 0
              /\ vehicles'[k].hack_progress = 0
              /\ vehicles'[k].target_vehicle = None
              /\ vehicles'[k].messages_sent = 0
              /\ vehicles'[k].current_node = vehicles'[k].path[1]]_vars

\* C15 witness: reset() has just been called after a set_attack that had
\* initiated an attack (the sophistication it chose is still there).
C15_Witness ==
    /\ last_op.op = "reset"
    /\ attack_sophistication = "high"
    /\ attack_logs = <<>>
    /\ active_attack = None

\* C16: after reset() the parameters, the defense configuration and the
\* attack sophistication are those of a freshly constructed engine.
C16_ResetRestoresConfig ==
    [][last_op'.op = "reset" =>
         /\ params' = DefaultParams
         /\ defense_config' = DefaultDefenseConfig
         /\ attack_sophistication' = "medium"]_vars

\* C17: right after construction or reset() the world holds the ten
\* vehicles asked for, with distinct ids, each moving with progress 0, no
\* target_vehicle and hack_progress 0; the first one, and only it, is the
\* attacker, with defense level high; every other one has level low, medium
\* or high.
C17_FreshPopulation ==
    /\ Len(vehicles) = VehicleCount
    /\ \A j, k \in 1..Len(vehicles) : vehicles[j].id = vehicles[k].id => j = k
    /\ \A k \in 1..Len(vehicles) :
         /\ vehicles[k].status = "moving"
         /\ vehicles[k].progress = 0
         /\ vehicles[k].target_vehicle = None
         /\ vehicles[k].hack_progress = 0
         /\ vehicles[k].is_attacker <=> k = 1
         /\ vehicles[k].defense_level \in Levels
    /\ vehicles[1].defense_level = "high"

\* C17 witness: a population generated by reset() whose first vehicle drew a
\* low defense level before it was made the hacker, and which holds a
\* vehicle that found no destination other than its start node.
C17_Witness ==
    /\ last_op.op = "reset"
    /\ Len(vehicles) = VehicleCount
    /\ vehicles[1].max_speed = 60
    /\ vehicles[1].is_attacker
    /\ \E k \in 2..Len(vehicles) :
         /\ vehicles[k].destination = vehicles[k].current_node
         /\ vehicles[k].path = <<vehicles[k].current_node>>
    /\ \E k \in 2..Len(vehicles) : vehicles[k].defense_level = "low"

\* C18: every configured strength is within 0..100 in every state; a
\* configure_defense on a known defense stores the requested strength
\* brought into 0..100, keeps the strength when none is given and keeps the
\* enabled flag when none is given.
C18_StrengthClamped ==
    /\ [](\A k \in DefenseKeys :
            defense_config[k].strength >= 0 /\ defense_config[k].strength <= 100)
    /\ [][(/\ last_op'.op = "configure_defense"
           /\ last_op'.arg.defense_type \in DefenseKeys) =>
            LET a == last_op'.arg
                before == defense_config[a.defense_type]
                after == defense_config'[a.defense_type]
            IN /\ after.strength =
                    (IF a.strength = NoArg THEN before.strength
                     ELSE IF a.strength < 0 THEN 0
                     ELSE IF a.strength > 100 THEN 100
                     ELSE a.strength)
               /\ after.enabled =
                    (IF a.enabled = None THEN before.enabled
                     ELSE a.enabled = "true")]_vars

\* C18 witness: configure_defense has just been called with strength 130,
\* and the strength stored is 100.
C18_Witness ==
    /\ last_op.op = "configure_defense"
    /\ last_op.arg.strength = 130
    /\ defense_config[last_op.arg.defense_type].strength = 100

\* C19: update_vehicle with an id no vehicle has, and configure_defense
\* with a key the configuration lacks, do not raise and change nothing of
\* the engine; update_vehicle with a known id sets the listed fields of the
\* first vehicle with that id and changes no other field, vehicle or
\* collection.
C19_UnknownIsNoOp ==
    /\ [][(/\ last_op'.op = "update_vehicle"
           /\ \A k \in 1..Len(vehicles) :
                vehicles[k].id /= last_op'.arg.vehicle_id) =>
            ~last_op'.raised /\ UNCHANGED progVars]_vars
    /\ [][(/\ last_op'.op = "configure_defense"
           /\ last_op'.arg.defense_type \notin DOMAIN defense_config) =>
            ~last_op'.raised /\ UNCHANGED progVars]_vars
    /\ [][(/\ last_op'.op = "update_vehicle"
           /\ \E k \in 1..Len(vehicles) :
                vehicles[k].id = last_op'.arg.vehicle_id) =>
            LET a == last_op'.arg
                named == CHOOSE k \in 1..Len(vehicles) :
                           /\ vehicles[k].id = a.vehicle_id
                           /\ \A m \in 1..(k - 1) : vehicles[m].id /= a.vehicle_id
            IN /\ ~last_op'.raised
               /\ Len(vehicles') = Len(vehicles)
               /\ \A k \in 1..Len(vehicles) :
                    k /= named => vehicles'[k] = vehicles[k]
               /\ \A f \in DOMAIN vehicles'[named] :
                    vehicles'[named][f] =
                      (IF f \in DOMAIN a.updates THEN a.updates[f]
                       ELSE vehicles[named][f])
               /\ UNCHANGED <<is_running, step_count, active_attack,
                              attack_sophistication, attack_logs, defense_logs,
                              outcome_logs, active_attacks, defense_config, params,
                              traffic_lights, v2v_messages, anomaly_detections>>]_vars

\* C19 witness: update_vehicle has just been called with an id no vehicle
\* has, on a world that had been stepped.
C19_Witness ==
    /\ last_op.op = "update_vehicle"
    /\ \A k \in 1..Len(vehicles) : vehicles[k].id /= last_op.arg.vehicle_id
    /\ step_count > 0

\* C20: a set_attack with a type the catalog does not know appends no
\* AttackLog and no active attack, and while such a type is selected no
\* step gives a vehicle a target, adds to a hack_progress or stops a vehicle.
C20_UnknownTypeInert ==
    /\ [][(/\ last_op'.op = "set_attack"
           /\ Truthy(active_attack')
           /\ active_attack' \notin ATTACK_TYPES) =>
            /\ attack_logs' = attack_logs
            /\ active_attacks' = active_attacks]_vars
    /\ [][(/\ last_op'.op = "step"
           /\ Truthy(active_attack)
           /\ active_attack \notin ATTACK_TYPES) =>
            \A k \in 1..Len(vehicles) :
              /\ Truthy(vehicles'[k].target_vehicle) =>
                   vehicles'[k].target_vehicle = vehicles[k].target_vehicle
              /\ vehicles'[k].hack_progress <= vehicles[k].hack_progress
              /\ vehicles'[k].status = "stopped" =>
                   vehicles[k].status = "stopped"]_vars

\* C21: no operation raises: every control call and every step() of a run
\* completes without an exception, whatever the arguments.
C21_NoOperationRaises == ~last_op.raised

\* What start() and stop() must leave alone: everything but is_running.
worldVars == <<step_count, active_attack, attack_sophistication, attack_logs,
               defense_logs, outcome_logs, active_attacks, defense_config,
               params, vehicles, traffic_lights, v2v_messages,
               anomaly_detections>>

\* C22: start() and stop() set is_running to true and to false, also when it
\* has that value already, and change nothing else; while is_running is
\* false no step() takes place, and the tick counter, the vehicles, the
\* lights, the logs and the active attacks change only in a control call
\* other than start() and stop().
C22_StartStopToggle ==
    [][/\ last_op'.op = "start" => (is_running' /\ UNCHANGED worldVars)
       /\ last_op'.op = "stop" => (~is_running' /\ UNCHANGED worldVars)
       /\ ~is_running =>
            /\ last_op'.op /= "step"
            /\ last_op'.op \in {"start", "stop"}
               \/ calls' = calls + 1
               \/ UNCHANGED <<step_count, vehicles, traffic_lights, attack_logs,
                              defense_logs, outcome_logs, active_attacks>>]_vars

\* start() called on a simulation that was running and had stepped: the
\* two calls so far were start(), the steps came between them.
C22_Witness ==
    /\ last_op.op = "start"
    /\ calls = 2
    /\ attack_logs = <<>>
    /\ step_count = ToggleSteps
    /\ is_running

\* C23: get_current_state() changes nothing of the world (tick counter,
\* vehicles, lights, active attacks, logs and the rest of the engine's
\* state are the same before and after); the dict it returns has an empty
\* messages list, and its other fields are those a step() snapshot reports
\* for the current state.
C23_SnapshotReadsOnly ==
    [][last_op'.op = "get_current_state" =>
         /\ UNCHANGED progVars
         /\ last_op'.arg.messages = <<>>
         /\ \A f \in DOMAIN last_op'.arg \ {"messages"} :
              last_op'.arg[f] = StepReturn(<<>>)[f]]_vars

\* get_current_state() called after the last step of a run in which the
\* logs have grown and vehicles are exchanging messages.
C23_Witness ==
    /\ last_op.op = "get_current_state"
    /\ step_count = SnapSteps
    /\ last_op.arg.step = SnapSteps
    /\ last_op.arg.v2v_communications /= <<>>
    /\ last_op.arg.anomalies /= <<>>
    /\ Len(attack_logs) > 20

\* view holds the last min(n, Len(stream)) entries of stream, in its order
IsLatest(view, stream, n) ==
    /\ Len(view) = Min(n, Len(stream))
    /\ \A i \in 1..Len(view) : view[i] = stream[Len(stream) - Len(view) + i]

\* What a returned dict s must show of the three log streams and of the
\* active attacks
Shown(s) ==
    /\ IsLatest(s.attack_logs, attack_logs, 20)
    /\ IsLatest(s.defense_logs, defense_logs, 20)
    /\ IsLatest(s.outcome_logs, outcome_logs, 10)
    /\ Len(s.anomalies) <= 10
    /\ s.active_attacks_count =
         Cardinality({i \in 1..Len(attack_logs) : attack_logs[i].status = "initiated"})

IsPrefix(s, t) == Len(s) <= Len(t) /\ \A i \in 1..Len(s) : t[i] = s[i]

C26_StoppedStandsStill ==
    /\ \A k \in 1..Len(vehicles) :
         vehicles[k].status = "stopped" => vehicles[k].speed = 0
    /\ [][\A k \in 1..Len(vehicles) :
            /\ vehicles'[k].status = "stopped" => vehicles'[k].speed = 0
            /\ (vehicles[k].status = "stopped" /\ vehicles'[k].status = "stopped") =>
                 /\ vehicles'[k].lat = vehicles[k].lat
                 /\ vehicles'[k].lon = vehicles[k].lon
                 /\ vehicles'[k].current_node = vehicles[k].current_node
                 /\ vehicles'[k].target_node = vehicles[k].target_node
                 /\ vehicles'[k].progress = vehicles[k].progress]_vars

\* The car next to the hacker was hacked while driving (it has left its
\* start node), and the run's last step found it stopped already: no anomaly
\* of that step names it.
C26_Witness ==
    /\ vehicles[2].status = "stopped"
    /\ vehicles[2].progress > 0
    /\ step_count = HackSteps
    /\ last_op.op = "step"
    /\ \A i \in 1..Len(last_op.arg) : last_op.arg[i].vehicle /= vehicles[2].id

\* C27: a vehicle never targets itself.  After every step, a vehicle with a
\* target_vehicle is an attacker, its target is another vehicle of the
\* simulation that is not an attacker, and an attack type is selected; every
\* non-attacker the step has processed (it was not stopped at its turn) has
\* target_vehicle None and hack_progress 0.
C27_TargetsAreOthers ==
    [][(last_op'.op = "step" /\ ~last_op'.raised) =>
         \A k \in 1..Len(vehicles') :
           /\ vehicles'[k].target_vehicle /= None =>
                /\ vehicles'[k].is_attacker
                /\ vehicles'[k].target_vehicle /= vehicles'[k].id
                /\ FirstWithId(vehicles', vehicles'[k].target_vehicle) /= 0
                /\ ~vehicles'[FirstWithId(vehicles', vehicles'[k].target_vehicle)].is_attacker
                /\ Truthy(active_attack')
           /\ (/\ ~vehicles'[k].is_attacker
               /\ vehicles[k].status /= "stopped"
               /\ vehicles'[k].status /= "stopped") =>
                /\ vehicles'[k].target_vehicle = None
                /\ vehicles'[k].hack_progress = 0]_vars

\* C28: after every step of a run without update_vehicle, every vehicle's
\* current_node and target_node are nodes of the road graph, target_node is
\* current_node itself or a neighbour of it, and every two consecutive nodes
\* of its path are joined by an edge.
C28_OnTheGraph ==
    \A k \in 1..Len(vehicles) :
      LET v == vehicles[k]
      IN /\ v.current_node \in Nodes
         /\ v.target_node \in Nodes
         /\ v.target_node = v.current_node \/ v.target_node \in Neighbors(v.current_node)
         /\ \A i \in 1..(Len(v.path) - 1) : v.path[i + 1] \in Neighbors(v.path[i])

\* The truck has reached its destination, the Battery, has drawn a new one
\* at least two blocks away and is moving again, while the emergency vehicle
\* has passed intermediate nodes of its route down Broadway.
C28_Witness ==
    /\ last_op.op = "step"
    /\ vehicles[2].current_node = "greenwich_battery"
    /\ vehicles[2].status = "moving"
    /\ Len(vehicles[2].path) >= 3
    /\ vehicles[2].target_node = vehicles[2].path[2]
    /\ vehicles[3].current_node \notin {"bway_murray", "bway_barclay"}

\* C29: a vehicle left in status arrived (the destination drawn on arrival
\* gave no path with a next node) stays so only until a later destination
\* roll succeeds, so that under continued stepping it returns to status
\* moving: whenever a vehicle is arrived and a step is to come, the step has
\* an outcome, a draw of the destination, after which the vehicle is moving.
C29_ArrivedResumes ==
    \A k \in 1..Len(vehicles) :
      (vehicles[k].status = "arrived" /\ is_running /\ step_count < MoveSteps) =>
        ENABLED (MoveStep /\ vehicles'[k].status = "moving")

\* C30: step() is atomic with respect to the control surface: while a
\* websocket coroutine is inside simulation.step(), no control call and no
\* other step takes effect; the only change of the engine is the end of that
\* step, however many requests and connections are being served.
C30_StepAtomic ==
    [][\A i \in 1..Len(tasks) :
         tasks[i].pc = "in_step" =>
           \/ <<worldVars, is_running>>' = <<worldVars, is_running>>
           \/ tasks'[i].pc /= "in_step" /\ last_op'.op = "step"]_vars

\* A connection is inside step() while a control request and a second
\* connection, ready to step, wait for the loop.
C30_Witness ==
    \E i, j, k \in 1..Len(tasks) :
      /\ tasks[i].pc = "in_step"
      /\ tasks[j].pc = "pending"
      /\ tasks[k].pc = "sleep"
      /\ step_count >= 1

\* The places in the vehicle list of the vehicles initiate_attack may take as
\* targets of the attacker: another id, not flagged is_attacker, at distance
\* strictly less than twice the radio range of the first vehicle with the
\* attacker's id.
Eligible(vehs, attacker_id, range) ==
    {k \in 1..Len(vehs) :
       /\ vehs[k].id /= attacker_id
       /\ ~vehs[k].is_attacker
       /\ range > 0
       /\ \E a \in 1..Len(vehs) :
            /\ vehs[a].id = attacker_id
            /\ \A j \in 1..(a - 1) : vehs[j].id /= attacker_id
            /\ (vehs[a].lat - vehs[k].lat) * (vehs[a].lat - vehs[k].lat)
                 + (vehs[a].lon - vehs[k].lon) * (vehs[a].lon - vehs[k].lon)
                 < 4 * range * range}

\* t lists the first at most three of these vehicles, in list order.
FirstThreeOf(t, vehs, elig) ==
    /\ Len(t) = (IF Cardinality(elig) < 3 THEN Cardinality(elig) ELSE 3)
    /\ \A p \in 1..Len(t) :
         \E k \in elig : /\ t[p] = vehs[k].id
                         /\ Cardinality({q \in elig : q < k}) = p - 1

C32_OneAttackPerCall ==
    [][(/\ last_op'.op = "set_attack"
        /\ calls' = calls + 1
        /\ active_attack' \in ATTACK_TYPES
        /\ attack_sophistication' \in Levels)
       => LET n == Len(attack_logs)
              m == Len(active_attacks)
              flagged == {k \in 1..Len(vehicles) : vehicles[k].is_attacker}
          IN IF flagged = {}
             THEN /\ attack_logs' = attack_logs
                  /\ active_attacks' = active_attacks
             ELSE /\ Len(attack_logs') = n + 1
                  /\ SubSeq(attack_logs', 1, n) = attack_logs
                  /\ attack_logs'[n + 1].status = "initiated"
                  /\ attack_logs'[n + 1].attack_type = active_attack'
                  /\ \E k \in flagged :
                       /\ \A j \in flagged : k <= j
                       /\ attack_logs'[n + 1].attacker_id = vehicles[k].id
                  /\ Len(active_attacks') = m + 1
                  /\ \A i \in 1..m : active_attacks'[i].id = active_attacks[i].id
                  /\ active_attacks'[m + 1].id = attack_logs'[n + 1].id
                  /\ \A i \in 1..m : active_attacks'[i].id /= attack_logs'[n + 1].id
      ]_vars

\* set_attack has just added an attack while another one was active and two
\* vehicles are flagged is_attacker.
C32_Witness ==
    /\ last_op.op = "set_attack"
    /\ ~last_op.raised
    /\ active_attack \in ATTACK_TYPES
    /\ Len(active_attacks) >= 2
    /\ Cardinality({k \in 1..Len(vehicles) : vehicles[k].is_attacker}) >= 2
    /\ attack_logs[Len(attack_logs)].status = "initiated"
    /\ attack_logs[Len(attack_logs)].attacker_id = "v_0"
    /\ active_attacks[Len(active_attacks)].id = attack_logs[Len(attack_logs)].id

\* set_attack with no vehicle flagged
C32_WitnessNone ==
    /\ last_op.op = "set_attack"
    /\ active_attack \in ATTACK_TYPES
    /\ Len(attack_logs) = 1
    /\ \A k \in 1..Len(vehicles) : ~vehicles[k].is_attacker

\* C33: step() never increases the number of active attacks (each due attack
\* it resolves is replaced by at most one new attack); set_attack with a type
\* adds at most one; set_attack without a type and reset() leave none; no
\* other operation changes the number.  Hence the number of active attacks
\* never exceeds the number of set_attack calls with a type made since the
\* last set_attack(None) or reset.
C33_ActiveAttacksBounded ==
    [][LET n == Len(active_attacks)
           m == Len(active_attacks')
       IN CASE last_op'.op = "step" -> m <= n
            [] last_op'.op = "set_attack" ->
                 IF Truthy(active_attack') THEN m <= n + 1 ELSE m = 0
            [] last_op'.op = "reset" -> m = 0
            [] OTHER -> m = n]_vars

\* A step has just resolved two due attacks and re-triggered each of them.
C33_Witness ==
    /\ last_op.op = "step"
    /\ Len(active_attacks) = 2
    /\ Len(attack_logs) = 4
    /\ \A i \in {1, 2} : /\ origin[i].by = "set_attack"
                         /\ origin[i].ended = step_count
    /\ \A i \in {3, 4} : /\ origin[i].by = "step"
                         /\ origin[i].tick = step_count
                         /\ attack_logs[i].id \in ActiveIds(active_attacks)

C34_WitnessSucceeded ==
    \E i, j \in LogIndices :
      /\ attack_logs[i].status = "succeeded"
      /\ attack_logs[j].status = "initiated"
      /\ OutcomesOf(attack_logs[i].id) /= {}

\* The traffic lights stand exactly at the nodes with three or more
\* neighbours, each timer is within 0..100, and a step adds one to a timer
\* below 100 and leaves the state, and takes a timer at 100 to 0 and changes
\* the state: a light changes once every 101 steps.
LightsCycle ==
    /\ [](/\ DOMAIN traffic_lights = LightNodes
          /\ \A n \in LightNodes :
               /\ traffic_lights[n].timer \in 0..100
               /\ traffic_lights[n].state \in {"red", "green"})
    /\ [][step_count' = step_count + 1 =>
            \A n \in LightNodes :
              LET l == traffic_lights[n]
                  m == traffic_lights'[n]
              IN IF l.timer = 100
                 THEN m.timer = 0 /\ m.state /= l.state
                 ELSE m.timer = l.timer + 1 /\ m.state = l.state]_vars

\* Vehicle k has waiting_at_light set while no red light holds it.
WaitsWithoutRed(k) ==
    /\ vehicles[k].waiting_at_light
    /\ \/ vehicles[k].target_node \notin DOMAIN traffic_lights
       \/ traffic_lights[vehicles[k].target_node].state /= "red"

C36_NoArrivalOnRed ==
    [][step_count' = step_count + 1 =>
         \A k \in 1..Len(vehicles) :
           (/\ vehicles[k].status = "moving"
            /\ vehicles'[k].current_node /= vehicles[k].current_node
            /\ vehicles'[k].current_node \in DOMAIN traffic_lights')
             => traffic_lights'[vehicles'[k].current_node].state /= "red"]_vars

\* C37: hack resistance applies only to high-defense targets and only once
\* hack_progress exceeds 70: when a step resets a hack with a "resisted"
\* anomaly (severity medium, reported for the target with the hacker as the
\* sender; a beacon anomaly names its own vehicle as sender), the target's defense_level is high and the hacker's hack_progress
\* had passed 70; a hack of a low- or medium-defense target is never reset
\* by resistance.
C37_ResistOnlyHigh ==
    [][(last_op'.op = "step" /\ ~last_op'.raised) =>
         \A a \in 1..Len(last_op'.arg) :
           (/\ last_op'.arg[a].severity = "medium"
            /\ last_op'.arg[a].sender /= last_op'.arg[a].vehicle) =>
             \E h, t \in 1..Len(vehicles) :
               /\ vehicles[h].id = last_op'.arg[a].sender
               /\ vehicles[t].id = last_op'.arg[a].vehicle
               /\ vehicles[h].target_vehicle = vehicles[t].id
               /\ vehicles'[h].hack_progress = 0
               /\ vehicles[t].defense_level = "high"
               /\ vehicles[h].hack_progress
                    + HackSpeed70(attack_sophistication, "high") > 4900]_vars

\* Vehicle t as the hacker at place h of the vehicle list finds it in a step:
\* the vehicles before h have been moved by the step already.
SeenBy(h, t) == IF t < h THEN vehicles'[t] ELSE vehicles[t]

\* The hacker h is at work in the coming step: flagged, an attack type
\* selected, not stopped.
Hacking(h) ==
    /\ vehicles[h].is_attacker
    /\ Truthy(active_attack)
    /\ vehicles[h].status /= "stopped"

\* The step has reported an anomaly of that severity on target t, sent by
\* hacker h: "medium" for a hack resisted, "high" for a vehicle hacked.
Reported(h, t, severity) ==
    \E a \in 1..Len(last_op'.arg) :
      /\ last_op'.arg[a].sender = vehicles[h].id
      /\ last_op'.arg[a].vehicle = vehicles[t].id
      /\ last_op'.arg[a].severity = severity

\* After the step the target t of hacker h is stopped and the hacker is free.
HackedBy(h, t) ==
    /\ vehicles'[t].status = "stopped"
    /\ vehicles'[t].speed = 0
    /\ vehicles'[t].hack_recovery_timer = 50
    /\ ~Truthy(vehicles'[h].target_vehicle)
    /\ vehicles'[h].hack_progress = 0

\* hack_progress stays within [0, 100]; a hacker without a target acquires
\* only a vehicle that is not flagged is_attacker, is moving and is at
\* distance < communication_range; it gives up a target (hack_progress 0)
\* that is not moving or is at distance >= 1.2 x communication_range.
HackRules ==
    /\ [](\A k \in 1..Len(vehicles) : vehicles[k].hack_progress \in 0..7000)
    /\ [][(last_op'.op = "step" /\ ~last_op'.raised) =>
            \A h \in 1..Len(vehicles) : Hacking(h) =>
              /\ (/\ ~Truthy(vehicles[h].target_vehicle)
                  /\ Truthy(vehicles'[h].target_vehicle))
                   => \E t \in 1..Len(vehicles) :
                        /\ vehicles[t].id = vehicles'[h].target_vehicle
                        /\ ~vehicles[t].is_attacker
                        /\ SeenBy(h, t).status = "moving"
                        /\ DistSq(vehicles[h], SeenBy(h, t))
                             < params.communication_range * params.communication_range
              /\ \A t \in 1..Len(vehicles) :
                   (/\ vehicles[t].id = vehicles[h].target_vehicle
                    /\ \A j \in 1..(t - 1) : vehicles[j].id /= vehicles[t].id
                    /\ \/ SeenBy(h, t).status /= "moving"
                       \/ 100 * DistSq(vehicles[h], SeenBy(h, t))
                            >= 144 * params.communication_range
                                   * params.communication_range)
                     => /\ ~Truthy(vehicles'[h].target_vehicle)
                        /\ vehicles'[h].hack_progress = 0]_vars

\* Hacker h works on target t in the coming step and its hack_progress
\* reaches 100 in it.
Completes(h, t) ==
    /\ Hacking(h)
    /\ vehicles[t].id = vehicles[h].target_vehicle
    /\ \A j \in 1..(t - 1) : vehicles[j].id /= vehicles[t].id
    /\ SeenBy(h, t).status = "moving"
    /\ 100 * DistSq(vehicles[h], SeenBy(h, t))
         < 144 * params.communication_range * params.communication_range
    /\ vehicles[h].hack_progress
         + HackSpeed70(attack_sophistication, vehicles[t].defense_level) >= 7000

\* C38 as stated: hack_progress within [0,100] after every step; acquisition
\* and giving up as above; and in the step in which hack_progress reaches 100
\* the target becomes stopped with speed 0 and recovery timer 50 while the
\* attacker's target_vehicle and hack_progress are cleared.
C38_AsStated ==
    /\ HackRules
    /\ [][(last_op'.op = "step" /\ ~last_op'.raised) =>
            \A h, t \in 1..Len(vehicles) : Completes(h, t) => HackedBy(h, t)]_vars

\* C38 amended: the same, the target becoming stopped in the step in which
\* hack_progress reaches 100 unless the resist roll of that step succeeds;
\* then the hack is reset and this hacker does not stop the target.
C38_HackLifecycle ==
    /\ HackRules
    /\ [][(last_op'.op = "step" /\ ~last_op'.raised) =>
            \A h, t \in 1..Len(vehicles) :
              Completes(h, t) =>
                IF Reported(h, t, "medium")
                THEN /\ ~Reported(h, t, "high")
                     /\ ~Truthy(vehicles'[h].target_vehicle)
                     /\ vehicles'[h].hack_progress = 0
                     /\ vehicles'[t].status = "stopped" =>
                          \E g \in 1..Len(vehicles) :
                            g /= h /\ Reported(g, t, "high")
                ELSE HackedBy(h, t)]_vars

\* A step has just completed a hack: the target is stopped with its recovery
\* timer at 50, the hacker is free again, and the anomaly is reported.
C38_Witness ==
    /\ last_op.op = "step"
    /\ ~last_op.raised
    /\ \E h, t \in 1..Len(vehicles) :
         /\ h /= t
         /\ vehicles[h].is_attacker
         /\ vehicles[h].hack_progress = 0
         /\ ~Truthy(vehicles[h].target_vehicle)
         /\ vehicles[t].status = "stopped"
         /\ vehicles[t].speed = 0
         /\ vehicles[t].hack_recovery_timer = 50
         /\ \E a \in 1..Len(last_op.arg) :
              /\ last_op.arg[a].sender = vehicles[h].id
              /\ last_op.arg[a].vehicle = vehicles[t].id
              /\ last_op.arg[a].severity = "high"

\* round(10 / message_frequency) for a positive frequency: Python rounds to the
\* nearest integer, a half to the even neighbour.
RoundedPeriod(message_frequency10) ==
    LET q == 100 \div message_frequency10
        r == 100 % message_frequency10
    IN IF 2 * r > message_frequency10 THEN q + 1
       ELSE IF 2 * r = message_frequency10 /\ q % 2 = 1 THEN q + 1
       ELSE q

\* C39: in a step with tick t every vehicle in the world emits exactly one
\* beacon (messages_sent + 1) if t mod round(10 / message_frequency) = 0, and
\* no vehicle emits a beacon otherwise.
C39_BeaconEveryVehicle ==
    [][(/\ last_op'.op = "step"
        /\ ~last_op'.raised
        /\ step_count' = step_count + 1
        /\ params.message_frequency > 0
        /\ RoundedPeriod(params.message_frequency) > 0)
         => \A k \in 1..Len(vehicles) :
              vehicles'[k].messages_sent =
                vehicles[k].messages_sent
                  + (IF step_count' % RoundedPeriod(params.message_frequency) = 0
                     THEN 1 ELSE 0)]_vars

\* C40: one step() per push period in total, however many viewers are
\* connected: while a connection is in the period of a step it has made
\* (sending the snapshot, or in the sleep of 0.1 s that follows), no step of
\* another connection advances the tick counter.
C40_OneStepPerPeriod ==
    [][(last_op'.op = "step" /\ step_count' = step_count + 1) =>
         \A j \in 1..Len(tasks) :
           ~(tasks[j].kind = "ws" /\ tasks[j].pc \in {"send_json", "sleep"})]_vars

=============================================================================
